---- MODULE Spec2Model ----
(***************************************************************************)
(* Model of the Unified Policy Terraform provider: the Rego validator of   *)
(* the template resource (regoContentValidator, FindDisallowedOperations) *)
(* and the create/read/update/delete handlers of the template, rule and   *)
(* lifecycle-policy resources with their toAPIModel / fromAPIModel        *)
(* mappers.                                                                *)
(***************************************************************************)
EXTENDS Integers, Sequences, FiniteSets, TLC

VARIABLES
    resourceType,   \* TypeName of the resource block of the configuration
    config,         \* the resource block's attributes other than rego
    fileContent,    \* content of the .rego file on disk (NoFile: unreadable)
    regoAttr,       \* rego attribute as the validator sees it: null/unknown/known
    regoPath,       \* the path the rego attribute resolves to
    phase,          \* position of the Terraform run
    regoCode,       \* text the validator read (its local regoCode)
    vDiags,         \* diagnostics of regoContentValidator.ValidateString
    disallowedOps,  \* result of FindDisallowedOperations in ValidateString
    server,         \* the entity held by the remote system (NoEntity: none)
    echoLabels,     \* whether the remote system returns application_labels
    referenced,     \* whether a lifecycle policy on the remote system references the rule
    env,            \* the environment variables of the provider process
    providerData,   \* the client the provider's Configure built, with its credential
    tfState,        \* the resource's Terraform state (NoState: none)
    plan,           \* the planned resource model of the next Create/Update
    lastOp,         \* the handler that ran last ("": none yet)
    lastRequest,    \* the request that handler sent to the policy API
    opDiags         \* the error diagnostics of that handler

vars == <<resourceType, config, fileContent, regoAttr, regoPath, phase, regoCode,
          vDiags, disallowedOps, server, echoLabels, referenced, env, providerData,
          tfState, plan, lastOp, lastRequest, opDiags>>

----------------------------------------------------------------------------
(* Bounds *)

MaxStmts == 2        \* expressions in the rule body of a policy module
LenSlack == 2        \* text lengths explored on each side of the ceiling
MaxExtraBytes == 2   \* bytes a text has beyond one per character

(* Program constants *)

maxRegoChars == 65536

----------------------------------------------------------------------------
(* Rego abstract syntax, as ast.ParseModuleWithOpts returns it.            *)
(* A term is a record [k, ref, terms, body]:                               *)
(*   k = "var"    a variable or scalar                                     *)
(*   k = "ref"    a reference; ref holds its Var/String parts              *)
(*   k = "call"   ast.Call, a call nested in a term: terms = <<op, arg>>   *)
(*   k = "compr"  ast.ArrayComprehension: terms = <<head>>, body = exprs   *)
(* An expression is [isCall, terms]: Terms is []*Term <<op, args...>> when *)
(* the statement is a call and a single *Term otherwise. The parser turns  *)
(* a call that is a whole statement into a call expression; calls inside   *)
(* a term stay ast.Call values.                                            *)

VarTerm == [k |-> "var", ref |-> <<>>, terms |-> <<>>, body |-> <<>>]

RefTerm(parts) == [k |-> "ref", ref |-> parts, terms |-> <<>>, body |-> <<>>]

CallTerm(parts, arg) ==
    [k |-> "call", ref |-> <<>>, terms |-> <<RefTerm(parts), arg>>, body |-> <<>>]

ComprTerm(head, exprs) ==
    [k |-> "compr", ref |-> <<>>, terms |-> <<head>>, body |-> exprs]

CallExpr(parts, arg) == [isCall |-> TRUE, terms |-> <<RefTerm(parts), arg>>]

TermExpr(t) == [isCall |-> FALSE, terms |-> <<t>>]

(* The operator names the model's policies use. *)
OpCount == <<"count">>
OpHttpSend == <<"http", "send">>
OpRandIntn == <<"rand", "intn">>
OpJwtDecode == <<"io", "jwt", "decode">>
OpOsGetenv == <<"os", "getenv">>
OpDataCount == <<"data", "lib", "count">>

TopOps == {OpCount, OpDataCount, OpHttpSend, OpRandIntn}
NestedOps == {OpCount, OpHttpSend}
ExcludedOps == {OpHttpSend, OpJwtDecode, OpRandIntn, OpOsGetenv}

\* The built-in names the parser gives to infix operators: x := t is
\* assign(x, t), a % b is rem(a, b), a == b is equal(a, b). An infix
\* operation that is a whole statement is a call expression, one that is an
\* operand is an ast.Call.
OpAssign == <<"assign">>
OpRem == <<"rem">>
OpEqual == <<"equal">>
InfixOps == {OpAssign, OpRem, OpEqual}

InfixExprs ==
    {CallExpr(op, VarTerm) : op \in InfixOps}
    \cup {CallExpr(op, CallTerm(OpRem, VarTerm)) : op \in {OpAssign, OpEqual}}

InnerExprs == {CallExpr(OpHttpSend, VarTerm), TermExpr(VarTerm)}

ArgTerms ==
    {VarTerm}
    \cup {CallTerm(op, VarTerm) : op \in NestedOps}
    \cup {ComprTerm(h, <<e>>) : h \in {VarTerm, CallTerm(OpHttpSend, VarTerm)},
                               e \in InnerExprs}

\* A call that is a whole statement is a call expression, never a bare term.
BodyExprs ==
    {CallExpr(op, t) : op \in TopOps, t \in ArgTerms}
    \cup InfixExprs
    \cup {TermExpr(t) : t \in {a \in ArgTerms : a.k # "call"}}

SeqsUpTo(S, n) == UNION {[1..m -> S] : m \in 0..n}

Modules == SeqsUpTo(BodyExprs, MaxStmts)

----------------------------------------------------------------------------
(* Source text. A text is abstracted to its length in characters, its      *)
(* length in bytes (UTF-8: one to four bytes per character) and what       *)
(* ast.ParseModuleWithOpts makes of it.                                    *)

Text(chars, bytes, parses, module) ==
    [chars |-> chars, bytes |-> bytes, parses |-> parses, module |-> module]

EmptyText == Text(0, 0, FALSE, <<>>)

ModuleText(module) ==
    Text(Len("package p") + Len(module), Len("package p") + Len(module), TRUE, module)

SingleCallModule(op) == <<CallExpr(op, VarTerm)>>

\* Go's len(string): the number of bytes.
GoLen(text) == text.bytes

----------------------------------------------------------------------------
(* The rego path and the file behind it.                                   *)
(* A path is a sequence of path symbols: " " is white space, "/" the root  *)
(* separator, "p" a name and ".rego" the extension.                        *)

NoFile == [chars |-> -1, bytes |-> -1, parses |-> FALSE, module |-> <<>>]

RECURSIVE TrimLeft(_)
TrimLeft(p) == IF p # <<>> /\ Head(p) = " " THEN TrimLeft(Tail(p)) ELSE p

RECURSIVE TrimRight(_)
TrimRight(p) ==
    IF p # <<>> /\ p[Len(p)] = " " THEN TrimRight(SubSeq(p, 1, Len(p) - 1)) ELSE p

TrimSpace(p) == TrimRight(TrimLeft(p))

IsAbs(p) == p # <<>> /\ Head(p) = "/"

HasSuffixRego(p) == p # <<>> /\ p[Len(p)] = ".rego"

GoodPath == <<"/", "p", ".rego">>

RegoPaths ==
    { GoodPath, <<" ", "/", "p", ".rego", " ">>, <<>>, <<" ">>,
      <<"p", ".rego">>, <<"/", "p">>, <<"p">>, <<"/", "p", ".rego", "p">> }

regoContentFromFileSuffixFirst(path, file) ==
    LET p == TrimSpace(path) IN
    IF p = <<>> THEN [err |-> "path cannot be empty", content |-> EmptyText]
    ELSE IF ~HasSuffixRego(p)
    THEN [err |-> "path must end with .rego", content |-> EmptyText]
    ELSE IF ~IsAbs(p)
    THEN [err |-> "path must be an absolute (full) path", content |-> EmptyText]
    ELSE IF file = NoFile THEN [err |-> "read", content |-> EmptyText]
    ELSE [err |-> "", content |-> file]

\* regoContentFromFile: [err, content]; err is "" when the file was read.
regoContentFromFile(path, file) ==
    LET p == TrimSpace(path) IN
    IF p = <<>> THEN [err |-> "path cannot be empty", content |-> EmptyText]
    ELSE IF ~IsAbs(p)
    THEN [err |-> "path must be an absolute (full) path", content |-> EmptyText]
    ELSE IF ~HasSuffixRego(p)
    THEN [err |-> "path must end with .rego", content |-> EmptyText]
    ELSE IF file = NoFile THEN [err |-> "read", content |-> EmptyText]
    ELSE [err |-> "", content |-> file]

IsPathError(err) ==
    err \in {"path cannot be empty", "path must be an absolute (full) path",
             "path must end with .rego"}

----------------------------------------------------------------------------
(* The allow-list and the walk over the parsed module.                     *)

GetAllowedRegoOperations ==
    {"eq", "equal", "neq", "gt", "lt", "gte", "lte"}
    \cup {"plus", "minus", "mul", "div", "abs", "round", "ceil", "floor"}
    \cup {"concat", "contains", "endswith", "format_int", "indexof", "lower",
          "replace", "split", "startswith", "substring", "trim", "trim_left",
          "trim_prefix", "trim_right", "trim_suffix", "upper"}
    \cup {"array.concat", "array.reverse", "array.slice"}
    \cup {"set_diff", "intersection", "union"}
    \cup {"object.get", "object.keys", "object.remove", "object.union",
          "object.union_n"}
    \cup {"to_number"}
    \cup {"count", "sum", "max", "min", "sort", "all", "any"}
    \cup {"and", "or"}
    \cup {"json.filter", "json.patch", "json.remove", "json.unmarshal"}
    \cup {"base64.encode", "base64.decode", "base64url.encode",
          "base64url.decode", "urlquery.encode", "urlquery.decode"}
    \cup {"time.now_ns", "time.parse_ns", "time.parse_rfc3339_ns",
          "time.parse_duration_ns"}
    \cup {"units.parse", "units.parse_bytes"}
    \cup {"regex.match", "regex.find_all_string_submatch_n", "regex.split"}
    \cup {"glob.match"}
    \cup {"graph.reachable", "graph.reachable_paths"}
    \cup {"is_number", "is_string", "is_boolean", "is_array", "is_object",
          "is_set", "is_null"}
    \cup {"type_name"}

\* funcName := parts[0]; for i := 1 .. : funcName += "." + parts[i]
RECURSIVE JoinParts(_)
JoinParts(parts) ==
    IF Len(parts) = 1 THEN parts[1]
    ELSE JoinParts(SubSeq(parts, 1, Len(parts) - 1)) \o "." \o parts[Len(parts)]

\* The visitor's callback on an *ast.Expr; acc = [disallowed, seen].
VisitExpr(e, allowedOps, acc) ==
    IF ~e.isCall THEN acc
    ELSE LET parts == e.terms[1].ref IN
         IF Len(parts) = 0 THEN acc
         ELSE LET funcName == JoinParts(parts)
                  shortName == parts[Len(parts)]
              IN IF /\ funcName \notin allowedOps
                    /\ shortName \notin allowedOps
                    /\ funcName \notin acc.seen
                 THEN [disallowed |-> Append(acc.disallowed, funcName),
                       seen |-> acc.seen \cup {funcName}]
                 ELSE acc

\* ast.GenericVisitor.Walk: the callback, then the node's children. The
\* callback acts on *ast.Expr alone and returns false, so the walk goes on
\* into every child.
RECURSIVE WalkExpr(_, _, _), WalkTerm(_, _, _), WalkExprs(_, _, _), WalkTerms(_, _, _)
WalkExpr(e, allowedOps, acc) ==
    WalkTerms(e.terms, allowedOps, VisitExpr(e, allowedOps, acc))

WalkTerm(t, allowedOps, acc) ==
    IF t.k = "call" THEN WalkTerms(t.terms, allowedOps, acc)
    ELSE IF t.k = "compr"
    THEN WalkExprs(t.body, allowedOps, WalkTerms(t.terms, allowedOps, acc))
    ELSE acc

WalkExprs(es, allowedOps, acc) ==
    IF es = <<>> THEN acc
    ELSE WalkExprs(Tail(es), allowedOps, WalkExpr(Head(es), allowedOps, acc))

WalkTerms(ts, allowedOps, acc) ==
    IF ts = <<>> THEN acc
    ELSE WalkTerms(Tail(ts), allowedOps, WalkTerm(Head(ts), allowedOps, acc))

FindDisallowedOperations(module, allowedOps) ==
    WalkExprs(module, allowedOps, [disallowed |-> <<>>, seen |-> {}]).disallowed

----------------------------------------------------------------------------
(* Terraform attribute values (types.String, types.List, types.Object):    *)
(* null, unknown or known.                                                 *)

StringNull == [st |-> "null", v |-> ""]
StringUnknown == [st |-> "unknown", v |-> ""]
StringValue(s) == [st |-> "known", v |-> s]
ListNull == [st |-> "null", elems |-> <<>>]
ListValue(elems) == [st |-> "known", elems |-> elems]
ObjectNull == [st |-> "null"]
BoolNull == [st |-> "null", v |-> FALSE]
BoolUnknown == [st |-> "unknown", v |-> FALSE]
BoolValue(b) == [st |-> "known", v |-> b]
IsNull(a) == a.st = "null"
IsUnknown(a) == a.st = "unknown"

NoPlan == [st |-> "none"]
NoState == [st |-> "none"]
NoEntity == [st |-> "none"]
NoRequest == [method |-> "", body |-> <<>>]

\* The environment variables Configure reads, all unset, and no client.
EnvNames ==
    {"JFROG_URL", "ARTIFACTORY_URL", "JFROG_ACCESS_TOKEN", "ARTIFACTORY_ACCESS_TOKEN",
     "JFROG_API_KEY", "ARTIFACTORY_API_KEY"}
NoEnv == [n \in EnvNames |-> ""]
NoClient == [st |-> "none"]

TemplateType == "unifiedpolicy_template"
RuleType == "unifiedpolicy_rule"
PolicyType == "unifiedpolicy_lifecycle_policy"

----------------------------------------------------------------------------
(* regoContentValidator.ValidateString                                     *)

Diag(summary, detail) == [summary |-> summary, detail |-> detail]

RECURSIVE opsList(_)
opsList(ops) ==
    IF Len(ops) = 0 THEN ""
    ELSE IF Len(ops) = 1 THEN ops[1]
    ELSE opsList(SubSeq(ops, 1, Len(ops) - 1)) \o ", " \o ops[Len(ops)]

\* The size check of ValidateString.
TooLong(code) == GoLen(code) > maxRegoChars

\* ValidateContent with the syntax check moved ahead of the size check.
ValidateContentSyntaxFirst(code) ==
    IF GoLen(code) = 0
    THEN [code |-> code, ops |-> <<>>, diags |-> <<Diag("Empty Rego", "")>>]
    ELSE IF ~code.parses
    THEN [code |-> code, ops |-> <<>>, diags |-> <<Diag("Invalid Rego Syntax", "")>>]
    ELSE IF TooLong(code)
    THEN [code |-> code, ops |-> <<>>, diags |-> <<Diag("Rego Code Too Long", "")>>]
    ELSE LET ops == FindDisallowedOperations(code.module, GetAllowedRegoOperations)
         IN [code |-> code, ops |-> ops,
             diags |-> IF Len(ops) > 0
                       THEN <<Diag("Disallowed Rego Operations", opsList(ops))>>
                       ELSE <<>>]

\* What ValidateString does with the text it read: [code, ops, diags].
ValidateContent(code) ==
    IF GoLen(code) = 0
    THEN [code |-> code, ops |-> <<>>, diags |-> <<Diag("Empty Rego", "")>>]
    ELSE IF TooLong(code)
    THEN [code |-> code, ops |-> <<>>, diags |-> <<Diag("Rego Code Too Long", "")>>]
    ELSE IF ~code.parses
    THEN [code |-> code, ops |-> <<>>, diags |-> <<Diag("Invalid Rego Syntax", "")>>]
    ELSE LET ops == FindDisallowedOperations(code.module, GetAllowedRegoOperations)
         IN IF Len(ops) > 0
            THEN [code |-> code, ops |-> ops,
                  diags |-> <<Diag("Disallowed Rego Operations", opsList(ops))>>]
            ELSE [code |-> code, ops |-> ops, diags |-> <<>>]

ValidateResult(attr, path, file) ==
    IF attr \in {"unknown", "null"}
    THEN [code |-> EmptyText, ops |-> <<>>, diags |-> <<>>]
    ELSE LET r == regoContentFromFile(path, file) IN
         IF r.err # ""
         THEN [code |-> EmptyText, ops |-> <<>>, diags |-> <<Diag("Rego Error", r.err)>>]
         ELSE ValidateContent(r.content)

\* The validation step of a run: the validator of the rego attribute runs on
\* the configuration; the run goes on to planning only without errors.
ValidateString ==
    /\ resourceType = TemplateType
    /\ phase \in {"config", "invalid"}
    /\ LET r == ValidateResult(regoAttr, regoPath, fileContent) IN
        /\ regoCode' = r.code
        /\ disallowedOps' = r.ops
        /\ vDiags' = r.diags
        /\ phase' = IF r.diags = <<>> THEN "validated" ELSE "invalid"
    /\ UNCHANGED <<resourceType, config, fileContent, regoAttr, regoPath, server,
                   echoLabels, referenced, env,
                   providerData, tfState, plan, lastOp, lastRequest, opDiags>>

----------------------------------------------------------------------------
(* The validator on its own: every text a .rego file can hold.             *)

LenValues ==
    (0..LenSlack) \cup ((maxRegoChars - LenSlack)..(maxRegoChars + LenSlack))

LengthTexts ==
    {Text(c, c + x, ok, m) :
        c \in LenValues \ {0}, x \in 0..MaxExtraBytes, ok \in BOOLEAN,
        m \in {<<>>, SingleCallModule(OpCount), SingleCallModule(OpHttpSend)}}

\* Texts that can exist: at most three bytes beyond one per character, no
\* module without a parse, no parse of a text shorter than a package clause.
WellFormedText(t) ==
    /\ t.bytes - t.chars <= 3 * t.chars
    /\ ~t.parses => t.module = <<>>
    /\ t.chars < Len("package p") => ~t.parses

ValidatorTexts ==
    {EmptyText}
    \cup {ModuleText(m) : m \in Modules}
    \cup {ModuleText(SingleCallModule(op)) : op \in ExcludedOps}
    \cup {t \in LengthTexts : WellFormedText(t)}

InitValidate ==
    /\ resourceType = TemplateType
    /\ phase = "config"
    /\ \/ /\ regoAttr = "known"
          /\ regoPath = GoodPath
          /\ fileContent \in ValidatorTexts
       \/ /\ regoAttr \in {"known", "unknown", "null"}
          /\ regoPath \in RegoPaths
          /\ fileContent \in {NoFile, EmptyText, ModuleText(SingleCallModule(OpCount))}
    /\ regoCode = EmptyText
    /\ vDiags = <<>>
    /\ disallowedOps = <<>>
    /\ config = NoPlan
    /\ server = NoEntity
    /\ echoLabels = FALSE
    /\ referenced = FALSE
    /\ env = NoEnv
    /\ providerData = NoClient
    /\ tfState = NoState
    /\ plan = NoPlan
    /\ lastOp = ""
    /\ lastRequest = NoRequest
    /\ opDiags = <<>>

NextValidate == ValidateString

SpecValidate == InitValidate /\ [][NextValidate]_vars

----------------------------------------------------------------------------
(* JSON and Go values.                                                     *)

Nil == [nil |-> TRUE]
IsNil(ptr) == ptr.nil
JsonNull == [null |-> TRUE]
EmptyObject == [k \in {} |-> JsonNull]

\* A tagged field `json:"k,omitempty"`: left out when its value is empty.
OmitEmpty(key, value, empty) == IF empty THEN EmptyObject ELSE (key :> value)

Has(object, key) == key \in DOMAIN object

\* The audit fields of a wire model: created_at, created_by, updated_at and
\* updated_by, each tagged omitempty.
MarshalAudit(api) ==
    OmitEmpty("created_at", api.CreatedAt, api.CreatedAt = "")
    @@ OmitEmpty("created_by", api.CreatedBy, api.CreatedBy = "")
    @@ OmitEmpty("updated_at", api.UpdatedAt, api.UpdatedAt = "")
    @@ OmitEmpty("updated_by", api.UpdatedBy, api.UpdatedBy = "")

\* types.List.ElementsAs(ctx, &[]string, false): fails on an unknown list
\* and on a null or unknown element.
ElementsAs(list) ==
    IF IsUnknown(list) \/ \E i \in 1..Len(list.elems) : list.elems[i].st # "known"
    THEN [err |-> TRUE, vals |-> <<>>]
    ELSE [err |-> FALSE, vals |-> [i \in 1..Len(list.elems) |-> list.elems[i].v]]

StringList(vals) == ListValue([i \in 1..Len(vals) |-> StringValue(vals[i])])

----------------------------------------------------------------------------
(* Lifecycle policy: LifecyclePolicyResourceModel and its API model.       *)

ObjectValue(attrs) == [st |-> "known", attrs |-> attrs]

StageObject(key, gate) == ObjectValue([key |-> key, gate |-> gate])

ActionObject(type, stage) == ObjectValue([type |-> type, stage |-> stage])

ScopeObject(type, projectKeys, applicationKeys, labels) ==
    ObjectValue([type |-> type, project_keys |-> projectKeys,
                 application_keys |-> applicationKeys,
                 application_labels |-> labels])

LabelObject(key, value) == ObjectValue([key |-> key, value |-> value])

PolicyModel(id, name, description, enabled, mode, action, scope, ruleIDs) ==
    [st |-> "known", ID |-> id, Name |-> name, Description |-> description,
     Enabled |-> enabled, Mode |-> mode, Action |-> action, Scope |-> scope,
     RuleIDs |-> ruleIDs]

\* LifecyclePolicyAPIModel; Action and Scope are pointers.
PolicyAPIModel(id, name, description, enabled, mode, action, scope, ruleIDs) ==
    [ID |-> id, Name |-> name, Description |-> description, Enabled |-> enabled,
     Mode |-> mode, Action |-> action, Scope |-> scope, RuleIDs |-> ruleIDs,
     CreatedAt |-> "", CreatedBy |-> "", UpdatedAt |-> "", UpdatedBy |-> ""]

ZeroPolicyAPIModel == PolicyAPIModel("", "", "", FALSE, "", Nil, Nil, <<>>)

LifecycleAction(type, stage) == [nil |-> FALSE, Type |-> type, Stage |-> stage]

LifecycleStage(key, gate) == [nil |-> FALSE, Key |-> key, Gate |-> gate]

LifecycleScope(type, projectKeys, applicationKeys, labels) ==
    [nil |-> FALSE, Type |-> type, ProjectKeys |-> projectKeys,
     ApplicationKeys |-> applicationKeys, ApplicationLabels |-> labels]

ApplicationLabel(key, value) == [Key |-> key, Value |-> value]

MissingField == "Missing Required Field"

\* The labels of a scope that have both a key and a value.
RECURSIVE apiLabels(_)
apiLabels(elements) ==
    IF elements = <<>> THEN <<>>
    ELSE LET l == Head(elements) IN
         (IF ~IsNull(l.attrs.key) /\ ~IsNull(l.attrs.value)
          THEN <<ApplicationLabel(l.attrs.key.v, l.attrs.value.v)>>
          ELSE <<>>) \o apiLabels(Tail(elements))

PolicyScopeToAPIAnyProjectKeys(m, api0) ==
    LET scopeAttrs == m.Scope.attrs IN
    IF IsNull(scopeAttrs.type)
    THEN [api |-> api0, diags |-> <<"Missing Scope Type">>, returned |-> TRUE]
    ELSE
    LET scopeType == scopeAttrs.type.v
        pk == IF IsNull(scopeAttrs.project_keys)
              THEN [err |-> FALSE, vals |-> <<>>]
              ELSE ElementsAs(scopeAttrs.project_keys)
        d1 == IF pk.err THEN <<"Value Conversion Error">> ELSE <<>>
        hasProjectKeys == ~IsNull(scopeAttrs.project_keys) /\ d1 = <<>>
                          /\ Len(pk.vals) > 0
        ak == IF IsNull(scopeAttrs.application_keys)
              THEN [err |-> FALSE, vals |-> <<>>]
              ELSE ElementsAs(scopeAttrs.application_keys)
        d2 == d1 \o (IF ak.err THEN <<"Value Conversion Error">> ELSE <<>>)
        hasApplicationKeys == ~IsNull(scopeAttrs.application_keys) /\ d2 = <<>>
                              /\ Len(ak.vals) > 0
        labels == IF IsNull(scopeAttrs.application_labels) THEN <<>>
                  ELSE apiLabels(scopeAttrs.application_labels.elems)
        scope == LifecycleScope(scopeType,
                                IF hasProjectKeys THEN pk.vals ELSE <<>>,
                                IF hasApplicationKeys THEN ak.vals ELSE <<>>,
                                labels)
        api1 == [api0 EXCEPT !.Scope = scope]
        invalid == [api |-> api1, diags |-> d2 \o <<"Invalid Scope Configuration">>,
                    returned |-> TRUE]
    IN IF scopeType = "project" /\ ~hasProjectKeys THEN invalid
       ELSE IF scopeType = "application" /\ ~hasApplicationKeys /\ Len(labels) = 0
       THEN invalid
       ELSE [api |-> api1, diags |-> d2, returned |-> FALSE]

PolicyScopeToAPIDeclaredTypeOnly(m, api0) ==
    LET scopeAttrs == m.Scope.attrs IN
    IF IsNull(scopeAttrs.type)
    THEN [api |-> api0, diags |-> <<"Missing Scope Type">>, returned |-> TRUE]
    ELSE
    LET scopeType == scopeAttrs.type.v
        pk == IF IsNull(scopeAttrs.project_keys)
              THEN [err |-> FALSE, vals |-> <<>>]
              ELSE ElementsAs(scopeAttrs.project_keys)
        d1 == IF pk.err THEN <<"Value Conversion Error">> ELSE <<>>
        hasProjectKeys == ~IsNull(scopeAttrs.project_keys) /\ d1 = <<>>
                          /\ Len(pk.vals) > 0
        ak == IF IsNull(scopeAttrs.application_keys)
              THEN [err |-> FALSE, vals |-> <<>>]
              ELSE ElementsAs(scopeAttrs.application_keys)
        d2 == d1 \o (IF ak.err THEN <<"Value Conversion Error">> ELSE <<>>)
        hasApplicationKeys == ~IsNull(scopeAttrs.application_keys) /\ d2 = <<>>
                              /\ Len(ak.vals) > 0
        labels == IF IsNull(scopeAttrs.application_labels) THEN <<>>
                  ELSE apiLabels(scopeAttrs.application_labels.elems)
        scope == LifecycleScope(scopeType,
                                IF hasProjectKeys /\ scopeType = "project"
                                THEN pk.vals ELSE <<>>,
                                IF hasApplicationKeys /\ scopeType = "application"
                                THEN ak.vals ELSE <<>>,
                                IF scopeType = "application" THEN labels ELSE <<>>)
        api1 == [api0 EXCEPT !.Scope = scope]
        invalid == [api |-> api1, diags |-> d2 \o <<"Invalid Scope Configuration">>,
                    returned |-> TRUE]
    IN IF scopeType = "project" /\ ~hasProjectKeys THEN invalid
       ELSE IF scopeType = "project" /\ hasProjectKeys /\ Len(scope.ProjectKeys) # 1
       THEN invalid
       ELSE IF scopeType = "application" /\ ~hasApplicationKeys /\ Len(labels) = 0
       THEN invalid
       ELSE [api |-> api1, diags |-> d2, returned |-> FALSE]

\* The scope part of toAPIModel, entered with the action converted:
\* [api, diags, returned]; returned tells that toAPIModel returned here.
PolicyScopeToAPI(m, api0) ==
    LET scopeAttrs == m.Scope.attrs IN
    IF IsNull(scopeAttrs.type)
    THEN [api |-> api0, diags |-> <<"Missing Scope Type">>, returned |-> TRUE]
    ELSE
    LET scopeType == scopeAttrs.type.v
        pk == IF IsNull(scopeAttrs.project_keys)
              THEN [err |-> FALSE, vals |-> <<>>]
              ELSE ElementsAs(scopeAttrs.project_keys)
        d1 == IF pk.err THEN <<"Value Conversion Error">> ELSE <<>>
        hasProjectKeys == ~IsNull(scopeAttrs.project_keys) /\ d1 = <<>>
                          /\ Len(pk.vals) > 0
        ak == IF IsNull(scopeAttrs.application_keys)
              THEN [err |-> FALSE, vals |-> <<>>]
              ELSE ElementsAs(scopeAttrs.application_keys)
        d2 == d1 \o (IF ak.err THEN <<"Value Conversion Error">> ELSE <<>>)
        hasApplicationKeys == ~IsNull(scopeAttrs.application_keys) /\ d2 = <<>>
                              /\ Len(ak.vals) > 0
        labels == IF IsNull(scopeAttrs.application_labels) THEN <<>>
                  ELSE apiLabels(scopeAttrs.application_labels.elems)
        scope == LifecycleScope(scopeType,
                                IF hasProjectKeys THEN pk.vals ELSE <<>>,
                                IF hasApplicationKeys THEN ak.vals ELSE <<>>,
                                labels)
        api1 == [api0 EXCEPT !.Scope = scope]
        invalid == [api |-> api1, diags |-> d2 \o <<"Invalid Scope Configuration">>,
                    returned |-> TRUE]
    IN IF scopeType = "project" /\ ~hasProjectKeys THEN invalid
       ELSE IF scopeType = "project" /\ hasProjectKeys /\ Len(scope.ProjectKeys) # 1
       THEN invalid
       ELSE IF scopeType = "application" /\ ~hasApplicationKeys /\ Len(labels) = 0
       THEN invalid
       ELSE [api |-> api1, diags |-> d2, returned |-> FALSE]

PolicyRuleIDsToAPIAtLeastOne(m, api0, diags) ==
    IF IsNull(m.RuleIDs) \/ IsUnknown(m.RuleIDs)
    THEN [api |-> api0, diags |-> diags \o <<MissingField>>]
    ELSE LET ids == ElementsAs(m.RuleIDs) IN
         IF ids.err \/ diags # <<>>
         THEN [api |-> api0,
               diags |-> diags \o (IF ids.err THEN <<"Value Conversion Error">> ELSE <<>>)]
         ELSE IF Len(ids.vals) = 0
         THEN [api |-> api0, diags |-> <<"Invalid Rule IDs">>]
         ELSE [api |-> [api0 EXCEPT !.RuleIDs = ids.vals], diags |-> <<>>]

\* The rule_ids part of toAPIModel; diags are those collected so far.
PolicyRuleIDsToAPI(m, api0, diags) ==
    IF IsNull(m.RuleIDs) \/ IsUnknown(m.RuleIDs)
    THEN [api |-> api0, diags |-> diags \o <<MissingField>>]
    ELSE LET ids == ElementsAs(m.RuleIDs) IN
         IF ids.err \/ diags # <<>>
         THEN [api |-> api0,
               diags |-> diags \o (IF ids.err THEN <<"Value Conversion Error">> ELSE <<>>)]
         ELSE IF Len(ids.vals) = 0
         THEN [api |-> api0, diags |-> <<"Invalid Rule IDs">>]
         ELSE IF Len(ids.vals) > 1
         THEN [api |-> api0, diags |-> <<"Invalid Rule IDs">>]
         ELSE [api |-> [api0 EXCEPT !.RuleIDs = ids.vals], diags |-> <<>>]

PolicyToAPIModelStageUnchecked(m) ==
    IF IsNull(m.Action) \/ IsUnknown(m.Action)
    THEN [api |-> ZeroPolicyAPIModel, diags |-> <<MissingField>>]
    ELSE IF IsNull(m.Scope) \/ IsUnknown(m.Scope)
    THEN [api |-> ZeroPolicyAPIModel, diags |-> <<MissingField>>]
    ELSE
    LET description == IF ~IsNull(m.Description) /\ ~IsUnknown(m.Description)
                          /\ m.Description.v # ""
                       THEN m.Description.v ELSE ""
        api0 == PolicyAPIModel("", m.Name.v, description, m.Enabled.v, m.Mode.v,
                               LifecycleAction(m.Action.attrs.type.v, Nil), Nil, <<>>)
        stage == m.Action.attrs.stage
    IN IF IsNull(stage)
       THEN [api |-> api0, diags |-> <<MissingField>>]
       ELSE LET api1 == [api0 EXCEPT !.Action.Stage =
                             LifecycleStage(stage.attrs.key.v, stage.attrs.gate.v)]
                sc == PolicyScopeToAPI(m, api1)
            IN IF sc.returned
               THEN [api |-> sc.api, diags |-> sc.diags]
               ELSE PolicyRuleIDsToAPI(m, sc.api, sc.diags)

\* LifecyclePolicyResourceModel.toAPIModel: [api, diags].
PolicyToAPIModel(m) ==
    IF IsNull(m.Action) \/ IsUnknown(m.Action)
    THEN [api |-> ZeroPolicyAPIModel, diags |-> <<MissingField>>]
    ELSE IF IsNull(m.Scope) \/ IsUnknown(m.Scope)
    THEN [api |-> ZeroPolicyAPIModel, diags |-> <<MissingField>>]
    ELSE
    LET description == IF ~IsNull(m.Description) /\ ~IsUnknown(m.Description)
                          /\ m.Description.v # ""
                       THEN m.Description.v ELSE ""
        api0 == PolicyAPIModel("", m.Name.v, description, m.Enabled.v, m.Mode.v,
                               LifecycleAction(m.Action.attrs.type.v, Nil), Nil, <<>>)
        stage == m.Action.attrs.stage
    IN IF IsNull(stage)
       THEN [api |-> api0, diags |-> <<MissingField>>]
       ELSE IF IsNull(stage.attrs.key) \/ IsNull(stage.attrs.gate)
       THEN [api |-> api0, diags |-> <<"Missing Required Stage Fields">>]
       ELSE LET api1 == [api0 EXCEPT !.Action.Stage =
                             LifecycleStage(stage.attrs.key.v, stage.attrs.gate.v)]
                sc == PolicyScopeToAPI(m, api1)
            IN IF sc.returned
               THEN [api |-> sc.api, diags |-> sc.diags]
               ELSE PolicyRuleIDsToAPI(m, sc.api, sc.diags)

\* FallbackLabels storing an empty list where the fallback has no list.
FallbackLabelsEmptyList(labelsFallback) ==
    IF ~IsNil(labelsFallback) /\ ~IsNull(labelsFallback.Scope)
    THEN IF /\ ~IsUnknown(labelsFallback.Scope)
            /\ ~IsNull(labelsFallback.Scope.attrs.application_labels)
         THEN labelsFallback.Scope.attrs.application_labels
         ELSE ListValue(<<>>)
    ELSE ListValue(<<>>)

\* labelsFallback's application_labels, when it has a scope with a list.
FallbackLabels(labelsFallback) ==
    IF ~IsNil(labelsFallback) /\ ~IsNull(labelsFallback.Scope)
    THEN IF /\ ~IsUnknown(labelsFallback.Scope)
            /\ ~IsNull(labelsFallback.Scope.attrs.application_labels)
         THEN labelsFallback.Scope.attrs.application_labels
         ELSE ListNull
    ELSE ListNull

\* applicationLabelsValue trusting the response alone.
applicationLabelsValueFromResponse(apiScope, labelsFallback) ==
    IF Len(apiScope.ApplicationLabels) > 0
    THEN ListValue([i \in 1..Len(apiScope.ApplicationLabels) |->
             LabelObject(StringValue(apiScope.ApplicationLabels[i].Key),
                         StringValue(apiScope.ApplicationLabels[i].Value))])
    ELSE ListNull

\* The application_labels that fromAPIModel stores.
applicationLabelsValue(apiScope, labelsFallback) ==
    IF Len(apiScope.ApplicationLabels) > 0
    THEN ListValue([i \in 1..Len(apiScope.ApplicationLabels) |->
             LabelObject(StringValue(apiScope.ApplicationLabels[i].Key),
                         StringValue(apiScope.ApplicationLabels[i].Value))])
    ELSE FallbackLabels(labelsFallback)

\* A Go pointer to a resource model, as fromAPIModel's labelsFallback.
PtrNilFallback(m) == Nil

Ptr(m) == [x \in DOMAIN m \cup {"nil"} |-> IF x = "nil" THEN FALSE ELSE m[x]]

PolicyFromAPIModelDescriptionFromResponse(m, apiModel, labelsFallback) ==
    [m EXCEPT
        !.ID = StringValue(apiModel.ID),
        !.Name = StringValue(apiModel.Name),
        !.Enabled = BoolValue(apiModel.Enabled),
        !.Mode = StringValue(apiModel.Mode),
        !.Description =
            IF apiModel.Description # "" THEN StringValue(apiModel.Description)
            ELSE StringNull,
        !.Action =
            IF ~IsNil(apiModel.Action)
            THEN ActionObject(StringValue(apiModel.Action.Type),
                    IF ~IsNil(apiModel.Action.Stage)
                    THEN StageObject(StringValue(apiModel.Action.Stage.Key),
                                     StringValue(apiModel.Action.Stage.Gate))
                    ELSE ObjectNull)
            ELSE ObjectNull,
        !.Scope =
            IF ~IsNil(apiModel.Scope)
            THEN ScopeObject(StringValue(apiModel.Scope.Type),
                    IF Len(apiModel.Scope.ProjectKeys) > 0
                    THEN StringList(apiModel.Scope.ProjectKeys) ELSE ListNull,
                    IF Len(apiModel.Scope.ApplicationKeys) > 0
                    THEN StringList(apiModel.Scope.ApplicationKeys) ELSE ListNull,
                    applicationLabelsValue(apiModel.Scope, labelsFallback))
            ELSE ObjectNull,
        !.RuleIDs =
            IF Len(apiModel.RuleIDs) > 0 THEN StringList(apiModel.RuleIDs)
            ELSE ListNull]

\* LifecyclePolicyResourceModel.fromAPIModel: the model after the call.
PolicyFromAPIModel(m, apiModel, labelsFallback) ==
    [m EXCEPT
        !.ID = StringValue(apiModel.ID),
        !.Name = StringValue(apiModel.Name),
        !.Enabled = BoolValue(apiModel.Enabled),
        !.Mode = StringValue(apiModel.Mode),
        !.Description =
            IF apiModel.Description # "" THEN StringValue(apiModel.Description)
            ELSE IF ~IsNil(labelsFallback) /\ ~IsNull(labelsFallback.Description)
            THEN labelsFallback.Description
            ELSE StringNull,
        !.Action =
            IF ~IsNil(apiModel.Action)
            THEN ActionObject(StringValue(apiModel.Action.Type),
                    IF ~IsNil(apiModel.Action.Stage)
                    THEN StageObject(StringValue(apiModel.Action.Stage.Key),
                                     StringValue(apiModel.Action.Stage.Gate))
                    ELSE ObjectNull)
            ELSE ObjectNull,
        !.Scope =
            IF ~IsNil(apiModel.Scope)
            THEN ScopeObject(StringValue(apiModel.Scope.Type),
                    IF Len(apiModel.Scope.ProjectKeys) > 0
                    THEN StringList(apiModel.Scope.ProjectKeys) ELSE ListNull,
                    IF Len(apiModel.Scope.ApplicationKeys) > 0
                    THEN StringList(apiModel.Scope.ApplicationKeys) ELSE ListNull,
                    applicationLabelsValue(apiModel.Scope, labelsFallback))
            ELSE ObjectNull,
        !.RuleIDs =
            IF Len(apiModel.RuleIDs) > 0 THEN StringList(apiModel.RuleIDs)
            ELSE ListNull]

\* json.Marshal of a LifecyclePolicyAPIModel, the body of a request.
MarshalScope(scope) ==
    IF IsNil(scope) THEN JsonNull
    ELSE ("type" :> scope.Type)
         @@ OmitEmpty("project_keys", scope.ProjectKeys, Len(scope.ProjectKeys) = 0)
         @@ OmitEmpty("application_keys", scope.ApplicationKeys,
                      Len(scope.ApplicationKeys) = 0)
         @@ OmitEmpty("application_labels",
                      [i \in 1..Len(scope.ApplicationLabels) |->
                          [key |-> scope.ApplicationLabels[i].Key,
                           value |-> scope.ApplicationLabels[i].Value]],
                      Len(scope.ApplicationLabels) = 0)

MarshalAction(action) ==
    IF IsNil(action) THEN JsonNull
    ELSE ("type" :> action.Type)
         @@ ("stage" :> IF IsNil(action.Stage) THEN JsonNull
                        ELSE [key |-> action.Stage.Key, gate |-> action.Stage.Gate])

MarshalPolicy(api) ==
    OmitEmpty("id", api.ID, api.ID = "")
    @@ ("name" :> api.Name)
    @@ OmitEmpty("description", api.Description, api.Description = "")
    @@ ("enabled" :> api.Enabled)
    @@ ("mode" :> api.Mode)
    @@ ("action" :> MarshalAction(api.Action))
    @@ ("scope" :> MarshalScope(api.Scope))
    @@ OmitEmpty("rule_ids", api.RuleIDs, Len(api.RuleIDs) = 0)
    @@ MarshalAudit(api)

\* json.Unmarshal of a response body into a LifecyclePolicyAPIModel.
Field(object, key, zero) == IF Has(object, key) THEN object[key] ELSE zero

IsJsonNull(v) == DOMAIN v = {"null"}

UnmarshalPolicy(body) ==
    PolicyAPIModel(
        Field(body, "id", ""), Field(body, "name", ""),
        Field(body, "description", ""), Field(body, "enabled", FALSE),
        Field(body, "mode", ""),
        IF ~Has(body, "action") \/ IsJsonNull(body["action"]) THEN Nil
        ELSE LifecycleAction(Field(body["action"], "type", ""),
                IF ~Has(body["action"], "stage") \/ IsJsonNull(body["action"]["stage"])
                THEN Nil
                ELSE LifecycleStage(Field(body["action"]["stage"], "key", ""),
                                    Field(body["action"]["stage"], "gate", ""))),
        IF ~Has(body, "scope") \/ IsJsonNull(body["scope"]) THEN Nil
        ELSE LifecycleScope(Field(body["scope"], "type", ""),
                            Field(body["scope"], "project_keys", <<>>),
                            Field(body["scope"], "application_keys", <<>>),
                            LET ls == Field(body["scope"], "application_labels", <<>>)
                            IN [i \in 1..Len(ls) |->
                                   ApplicationLabel(ls[i].key, ls[i].value)]),
        Field(body, "rule_ids", <<>>))

----------------------------------------------------------------------------
(* Template: TemplateResourceModel and TemplateAPIModel.                   *)
(* The rego attribute holds a Go string that is a path (configuration,     *)
(* state) or Rego text (API): a record [path, text], both empty for "".    *)

EmptyStr == [path |-> <<>>, text |-> EmptyText]
PathStr(p) == [path |-> p, text |-> EmptyText]
TextStr(t) == [path |-> <<>>, text |-> t]
RegoNull == [st |-> "null", v |-> EmptyStr]

TemplateModel(id, name, descr, version, category, dsType, params, rego, scanners, custom) ==
    [st |-> "known", ID |-> id, Name |-> name, Description |-> descr,
     Version |-> version, Category |-> category, DataSourceType |-> dsType,
     Parameters |-> params, Rego |-> rego, Scanners |-> scanners,
     IsCustom |-> custom]

\* TemplateAPIModel; Description is a *string.
TemplateAPIModel(id, name, descr, version, category, dsType, params, rego, scanners, custom) ==
    [ID |-> id, Name |-> name, Description |-> descr, Version |-> version,
     Category |-> category, DataSourceType |-> dsType,
     Parameters |-> params, Rego |-> rego, Scanners |-> scanners,
     IsCustom |-> custom,
     CreatedAt |-> "", CreatedBy |-> "", UpdatedAt |-> "", UpdatedBy |-> ""]

StringPtrNilWhenEmpty(s) == IF s = "" THEN Nil ELSE [nil |-> FALSE, v |-> s]

StringPtr(s) == [nil |-> FALSE, v |-> s]

ParameterObject(name, type) == ObjectValue([name |-> name, type |-> type])

\* ElementsAs into a slice of models with types.String fields: fails on an
\* unknown list and on a null or unknown element object.
ObjectsAs(list) ==
    IF IsUnknown(list) \/ \E i \in 1..Len(list.elems) : list.elems[i].st # "known"
    THEN [err |-> TRUE, vals |-> <<>>]
    ELSE [err |-> FALSE, vals |-> [i \in 1..Len(list.elems) |-> list.elems[i].attrs]]

\* TemplateResourceModel.toAPIModel: [api, diags]; file is the content of the
\* .rego file at the time of the call.
TemplateToAPIModel(m, file) ==
    LET api0 == TemplateAPIModel("", m.Name.v, Nil, m.Version.v, m.Category.v,
                                 m.DataSourceType.v, <<>>, EmptyText, <<>>, FALSE)
        r == IF IsNull(m.Rego) THEN [err |-> "", content |-> EmptyText]
             ELSE regoContentFromFile(m.Rego.v.path, file)
    IN IF r.err # ""
       THEN [api |-> api0,
             diags |-> IF IsPathError(r.err) THEN <<"Invalid Rego Path">>
                       ELSE <<"Rego File Not Found">>]
       ELSE
       LET params == IF IsNull(m.Parameters) THEN [err |-> FALSE, vals |-> <<>>]
                     ELSE ObjectsAs(m.Parameters)
           d1 == IF params.err THEN <<"Value Conversion Error">> ELSE <<>>
           scanners == IF IsNull(m.Scanners) THEN [err |-> FALSE, vals |-> <<>>]
                       ELSE ElementsAs(m.Scanners)
           d2 == d1 \o (IF scanners.err THEN <<"Value Conversion Error">> ELSE <<>>)
       IN [api |-> [api0 EXCEPT
                      !.Rego = r.content,
                      !.Description = IF IsNull(m.Description) THEN Nil
                                      ELSE StringPtr(m.Description.v),
                      !.Parameters =
                          IF d1 = <<>>
                          THEN [i \in 1..Len(params.vals) |->
                                   [Name |-> params.vals[i].name.v,
                                    Type |-> params.vals[i].type.v]]
                          ELSE <<>>,
                      !.Scanners = IF d2 = <<>> THEN scanners.vals ELSE <<>>],
           diags |-> d2]

TemplateFromAPIModelNullCollections(m, apiModel) ==
    [m EXCEPT
        !.ID = StringValue(apiModel.ID),
        !.Name = StringValue(apiModel.Name),
        !.Category = StringValue(apiModel.Category),
        !.DataSourceType = StringValue(apiModel.DataSourceType),
        !.Rego = StringValue(TextStr(apiModel.Rego)),
        !.Version = StringValue(apiModel.Version),
        !.Description = IF ~IsNil(apiModel.Description)
                        THEN StringValue(apiModel.Description.v) ELSE StringNull,
        !.Parameters =
            IF Len(apiModel.Parameters) > 0
            THEN ListValue([i \in 1..Len(apiModel.Parameters) |->
                     ParameterObject(StringValue(apiModel.Parameters[i].Name),
                                     StringValue(apiModel.Parameters[i].Type))])
            ELSE ListNull,
        !.Scanners = IF Len(apiModel.Scanners) > 0 THEN StringList(apiModel.Scanners)
                     ELSE ListNull,
        !.IsCustom = BoolValue(apiModel.IsCustom)]

\* TemplateResourceModel.fromAPIModel: the model after the call.
TemplateFromAPIModel(m, apiModel) ==
    [m EXCEPT
        !.ID = StringValue(apiModel.ID),
        !.Name = StringValue(apiModel.Name),
        !.Category = StringValue(apiModel.Category),
        !.DataSourceType = StringValue(apiModel.DataSourceType),
        !.Rego = StringValue(TextStr(apiModel.Rego)),
        !.Version = StringValue(apiModel.Version),
        !.Description = IF ~IsNil(apiModel.Description)
                        THEN StringValue(apiModel.Description.v) ELSE StringNull,
        !.Parameters =
            IF Len(apiModel.Parameters) > 0
            THEN ListValue([i \in 1..Len(apiModel.Parameters) |->
                     ParameterObject(StringValue(apiModel.Parameters[i].Name),
                                     StringValue(apiModel.Parameters[i].Type))])
            ELSE ListValue(<<>>),
        !.Scanners = IF Len(apiModel.Scanners) > 0 THEN StringList(apiModel.Scanners)
                     ELSE ListValue(<<>>),
        !.IsCustom = BoolValue(apiModel.IsCustom)]

\* json.Marshal of a TemplateAPIModel.
MarshalTemplate(api) ==
    OmitEmpty("id", api.ID, api.ID = "")
    @@ ("name" :> api.Name)
    @@ OmitEmpty("description", IF IsNil(api.Description) THEN "" ELSE api.Description.v,
                 IsNil(api.Description))
    @@ ("version" :> api.Version)
    @@ ("category" :> api.Category)
    @@ ("data_source_type" :> api.DataSourceType)
    @@ OmitEmpty("parameters",
                 [i \in 1..Len(api.Parameters) |->
                     [name |-> api.Parameters[i].Name, type |-> api.Parameters[i].Type]],
                 Len(api.Parameters) = 0)
    @@ ("rego" :> api.Rego)
    @@ OmitEmpty("scanners", api.Scanners, Len(api.Scanners) = 0)
    @@ ("is_custom" :> api.IsCustom)
    @@ MarshalAudit(api)

UnmarshalTemplateDescriptionByValue(body) ==
    TemplateAPIModel(
        Field(body, "id", ""), Field(body, "name", ""),
        StringPtr(Field(body, "description", "")),
        Field(body, "version", ""), Field(body, "category", ""),
        Field(body, "data_source_type", ""),
        LET ps == Field(body, "parameters", <<>>)
        IN [i \in 1..Len(ps) |-> [Name |-> ps[i].name, Type |-> ps[i].type]],
        Field(body, "rego", EmptyText),
        Field(body, "scanners", <<>>),
        Field(body, "is_custom", FALSE))

\* json.Unmarshal of a response body into a TemplateAPIModel.
UnmarshalTemplate(body) ==
    TemplateAPIModel(
        Field(body, "id", ""), Field(body, "name", ""),
        IF Has(body, "description") THEN StringPtr(body["description"]) ELSE Nil,
        Field(body, "version", ""), Field(body, "category", ""),
        Field(body, "data_source_type", ""),
        LET ps == Field(body, "parameters", <<>>)
        IN [i \in 1..Len(ps) |-> [Name |-> ps[i].name, Type |-> ps[i].type]],
        Field(body, "rego", EmptyText),
        Field(body, "scanners", <<>>),
        Field(body, "is_custom", FALSE))

----------------------------------------------------------------------------
(* Rule: RuleResourceModel and RuleAPIModel.                               *)

RuleModel(id, name, description, isCustom, templateID, parameters) ==
    [st |-> "known", ID |-> id, Name |-> name, Description |-> description,
     IsCustom |-> isCustom, TemplateID |-> templateID, Parameters |-> parameters]

RuleAPIModel(id, name, description, isCustom, templateID, parameters) ==
    [ID |-> id, Name |-> name, Description |-> description, IsCustom |-> isCustom,
     TemplateID |-> templateID, Parameters |-> parameters,
     CreatedAt |-> "", CreatedBy |-> "", UpdatedAt |-> "", UpdatedBy |-> ""]

RuleParameterObject(name, value) == ObjectValue([name |-> name, value |-> value])

\* RuleResourceModel.toAPIModel: [api, diags].
RuleToAPIModel(m) ==
    LET params == IF IsNull(m.Parameters) THEN [err |-> FALSE, vals |-> <<>>]
                  ELSE ObjectsAs(m.Parameters)
    IN [api |-> RuleAPIModel("", m.Name.v,
                    IF ~IsNull(m.Description) THEN m.Description.v ELSE "",
                    FALSE, m.TemplateID.v,
                    IF params.err THEN <<>>
                    ELSE [i \in 1..Len(params.vals) |->
                             [Name |-> params.vals[i].name.v,
                              Value |-> params.vals[i].value.v]]),
        diags |-> IF params.err THEN <<"Value Conversion Error">> ELSE <<>>]

RuleFromAPIModelKeepsKnownFlag(m, api) ==
    [m EXCEPT
        !.ID = StringValue(api.ID),
        !.Name = StringValue(api.Name),
        !.TemplateID = StringValue(api.TemplateID),
        !.Description = IF api.Description # "" THEN StringValue(api.Description)
                        ELSE StringValue(""),
        !.IsCustom = IF m.IsCustom.st = "known" THEN m.IsCustom
                     ELSE BoolValue(api.IsCustom),
        !.Parameters =
            ListValue([i \in 1..Len(api.Parameters) |->
                RuleParameterObject(StringValue(api.Parameters[i].Name),
                                    StringValue(api.Parameters[i].Value))])]

\* RuleResourceModel.fromAPIModel: the model after the call.
RuleFromAPIModel(m, api) ==
    [m EXCEPT
        !.ID = StringValue(api.ID),
        !.Name = StringValue(api.Name),
        !.TemplateID = StringValue(api.TemplateID),
        !.Description = IF api.Description # "" THEN StringValue(api.Description)
                        ELSE StringValue(""),
        !.IsCustom = BoolValue(api.IsCustom),
        !.Parameters =
            ListValue([i \in 1..Len(api.Parameters) |->
                RuleParameterObject(StringValue(api.Parameters[i].Name),
                                    StringValue(api.Parameters[i].Value))])]

MarshalRuleOmitEmptyParameters(api) ==
    ("id" :> api.ID)
    @@ ("name" :> api.Name)
    @@ OmitEmpty("description", api.Description, api.Description = "")
    @@ OmitEmpty("is_custom", api.IsCustom, ~api.IsCustom)
    @@ ("template_id" :> api.TemplateID)
    @@ OmitEmpty("parameters",
                 [i \in 1..Len(api.Parameters) |->
                     [name |-> api.Parameters[i].Name, value |-> api.Parameters[i].Value]],
                 Len(api.Parameters) = 0)
    @@ MarshalAudit(api)

\* json.Marshal of a RuleAPIModel.
MarshalRule(api) ==
    ("id" :> api.ID)
    @@ ("name" :> api.Name)
    @@ OmitEmpty("description", api.Description, api.Description = "")
    @@ OmitEmpty("is_custom", api.IsCustom, ~api.IsCustom)
    @@ ("template_id" :> api.TemplateID)
    @@ ("parameters" :> [i \in 1..Len(api.Parameters) |->
                            [name |-> api.Parameters[i].Name,
                             value |-> api.Parameters[i].Value]])
    @@ MarshalAudit(api)

\* json.Unmarshal of a response body into a RuleAPIModel.
UnmarshalRule(body) ==
    RuleAPIModel(
        Field(body, "id", ""), Field(body, "name", ""),
        Field(body, "description", ""), Field(body, "is_custom", FALSE),
        Field(body, "template_id", ""),
        LET ps == Field(body, "parameters", <<>>)
        IN [i \in 1..Len(ps) |-> [Name |-> ps[i].name, Value |-> ps[i].value]])

----------------------------------------------------------------------------
(* Configurations.  Each resource has a base configuration and variants    *)
(* that differ from it in one attribute.                                   *)

Labels(value) == ListValue(<<LabelObject(StringValue("k"), StringValue(value))>>)
NoLabels == ListValue(<<>>)     \* no application_labels block

Stage == StageObject(StringValue("s"), StringValue("entry"))
Action == ActionObject(StringValue("certify_to_gate"), Stage)

ApplicationScope(keys, labels) ==
    ScopeObject(StringValue("application"), ListNull, keys, labels)
ProjectScope(keys, labels) ==
    ScopeObject(StringValue("project"), keys, ListNull, labels)

PolicyConfig(description, action, scope, ruleIDs) ==
    PolicyModel(StringNull, StringValue("n"), description, BoolValue(TRUE),
                StringValue("block"), action, scope, ruleIDs)

BasePolicy ==
    PolicyConfig(StringValue("d"), Action, ApplicationScope(ListNull, Labels("v1")),
                 StringList(<<"r1">>))

PolicyConfigs ==
    {BasePolicy}
    \cup {[BasePolicy EXCEPT !.Description = d] : d \in {StringNull, StringValue("")}}
    \cup {[BasePolicy EXCEPT !.Action = a] :
            a \in {ObjectNull, ActionObject(StringValue("certify_to_gate"), ObjectNull)}}
    \cup {[BasePolicy EXCEPT !.Scope = sc] :
            sc \in {ObjectNull,
                    ApplicationScope(ListNull, Labels("v2")),
                    ApplicationScope(ListNull, NoLabels),
                    ApplicationScope(StringList(<<"a">>), NoLabels),
                    ProjectScope(StringList(<<"p">>), NoLabels),
                    ProjectScope(ListNull, NoLabels),
                    ProjectScope(StringList(<<"p", "q">>), NoLabels)}}
    \cup {[BasePolicy EXCEPT !.RuleIDs = r] :
            r \in {ListValue(<<>>), StringList(<<"r1", "r2">>)}}

TemplateConfig(description, parameters, scanners) ==
    TemplateModel(StringNull, StringValue("n"), description, StringValue("1"),
                  StringValue("security"), StringValue("noop"), parameters,
                  RegoNull, scanners, BoolNull)

BaseTemplate == TemplateConfig(StringValue("d"), ListNull, ListNull)

TemplateConfigs ==
    {BaseTemplate}
    \cup {[BaseTemplate EXCEPT !.Description = d] : d \in {StringNull, StringValue("")}}
    \cup {[BaseTemplate EXCEPT !.Parameters =
              ListValue(<<ParameterObject(StringValue("p"), StringValue("string"))>>)]}
    \cup {[BaseTemplate EXCEPT !.Scanners = StringList(<<"sca">>)]}

RuleConfig(description, parameters) ==
    RuleModel(StringNull, StringValue("n"), description, BoolNull,
              StringValue("t1"), parameters)

BaseRule == RuleConfig(StringValue("d"), ListNull)

RuleConfigs ==
    {BaseRule}
    \cup {[BaseRule EXCEPT !.Description = d] : d \in {StringNull, StringValue("")}}
    \cup {[BaseRule EXCEPT !.Parameters =
              ListValue(<<RuleParameterObject(StringValue("p"), StringValue("1"))>>)]}
    \cup {[BaseRule EXCEPT !.IsCustom = BoolValue(c)] : c \in BOOLEAN}

Configs(type) ==
    IF type = TemplateType THEN TemplateConfigs
    ELSE IF type = RuleType THEN RuleConfigs
    ELSE PolicyConfigs

\* The contents the .rego file takes while a configuration is applied.
FileContents ==
    {NoFile, ModuleText(SingleCallModule(OpCount)),
     ModuleText(SingleCallModule(OpHttpSend))}

\* Schema validators of the lifecycle policy's attributes that are lists:
\* rule_ids is required with one element, project_keys has at most one.
PolicySchemaDiags(c) ==
    (IF IsNull(c.RuleIDs) THEN <<"Missing required argument">>
     ELSE IF c.RuleIDs.st = "known" /\ Len(c.RuleIDs.elems) # 1
     THEN <<"Invalid Attribute Value">> ELSE <<>>)
    \o (IF /\ c.Scope.st = "known"
           /\ c.Scope.attrs.project_keys.st = "known"
           /\ Len(c.Scope.attrs.project_keys.elems) > 1
        THEN <<"Invalid Attribute Value">> ELSE <<>>)

\* The planned value of a computed id: the prior state's (UseStateForUnknown).
PlannedID(state) == IF state = NoState THEN StringUnknown ELSE state.ID

\* Optional and computed lists default to the empty list.
DefaultList(list) == IF IsNull(list) THEN ListValue(<<>>) ELSE list

\* The plan Terraform hands to Create or Update for a configuration.
PlanOf(type, c, path, state) ==
    IF type = TemplateType
    THEN [c EXCEPT !.ID = PlannedID(state),
                   !.Rego = StringValue(PathStr(path)),
                   !.Parameters = DefaultList(c.Parameters),
                   !.Scanners = DefaultList(c.Scanners),
                   !.IsCustom = BoolUnknown]
    ELSE IF type = RuleType
    THEN [c EXCEPT !.ID = PlannedID(state),
                   !.Description = IF IsNull(c.Description) THEN StringUnknown
                                   ELSE c.Description,
                   !.Parameters = DefaultList(c.Parameters),
                   !.IsCustom = IF IsNull(c.IsCustom) THEN BoolUnknown
                                ELSE c.IsCustom]
    ELSE [c EXCEPT !.ID = PlannedID(state)]

----------------------------------------------------------------------------
(* The policy API as the handlers see it: one entity per resource, stored  *)
(* as the JSON object of the last accepted request plus the fields the     *)
(* server assigns.  A request ends in a transport error or a response.     *)

ServerID == "id1"

Outcomes == {"ok", "conflict", "unique", "error", "transport"}

Entity(body) == [st |-> "known", body |-> body]

\* What the server keeps of an accepted body.
Stored(type, body) ==
    ("id" :> ServerID)
    @@ (IF type = PolicyType THEN EmptyObject ELSE ("is_custom" :> TRUE))
    @@ body

\* The JSON the server returns for its entity; application_labels are left
\* out of it unless the server echoes them.
ResponseBody(type, body, echo) ==
    IF type = PolicyType /\ ~echo /\ Has(body, "scope") /\ ~IsJsonNull(body["scope"])
    THEN [body EXCEPT !["scope"] =
            [k \in DOMAIN body["scope"] \ {"application_labels"} |-> body["scope"][k]]]
    ELSE body

Response(status, body, unique, srv) ==
    [err |-> FALSE, status |-> status, body |-> body, unique |-> unique,
     server |-> srv]

\* One exchange with the policy API: the response and the server after it.
Exchange(method, type, body, outcome, srv, echo) ==
    IF outcome = "transport"
    THEN [err |-> TRUE, status |-> 0, body |-> EmptyObject, unique |-> FALSE,
          server |-> srv]
    ELSE IF outcome = "error" THEN Response(500, EmptyObject, FALSE, srv)
    ELSE IF outcome = "unique" THEN Response(500, EmptyObject, TRUE, srv)
    ELSE IF outcome = "conflict" THEN Response(409, EmptyObject, FALSE, srv)
    ELSE IF method = "POST"
    THEN IF srv # NoEntity THEN Response(409, EmptyObject, FALSE, srv)
         ELSE Response(201, ResponseBody(type, Stored(type, body), echo), FALSE,
                       Entity(Stored(type, body)))
    ELSE IF srv = NoEntity THEN Response(404, EmptyObject, FALSE, srv)
    ELSE IF method = "PUT"
    THEN Response(200, ResponseBody(type, Stored(type, body), echo), FALSE,
                  Entity(Stored(type, body)))
    ELSE IF method = "GET"
    THEN Response(200, ResponseBody(type, srv.body, echo), FALSE, srv)
    ELSE Response(204, EmptyObject, FALSE, NoEntity)

Request(method, body) == [method |-> method, body |-> body]

IsErrorServerFaultsOnly(response) == response.status > 499

\* resty's Response.IsError
IsError(response) == response.status > 399

\* HasError that overlooks the diagnostics.
HasErrorOverlooked(diags) == FALSE

\* resp.Diagnostics.HasError()
HasError(diags) == diags # <<>>

\* HandleAPIErrorWithType: the summary for a status code.
HandleAPIError(status) ==
    IF status = 400 THEN <<"Invalid Request">>
    ELSE IF status = 401 THEN <<"Authentication Failed">>
    ELSE IF status = 403 THEN <<"Permission Denied">>
    ELSE IF status = 404 THEN <<"Resource Not Found">>
    ELSE IF status = 409 THEN <<"Resource Conflict">>
    ELSE IF status \in {500, 502, 503} THEN <<"Server Error">>
    ELSE <<"API Error">>

\* The end of a handler: its diagnostics, the request it sent, the server
\* and the state Terraform keeps after it.
Returns(op, diags, request, srv, state) ==
    /\ lastOp' = op
    /\ opDiags' = diags
    /\ lastRequest' = request
    /\ server' = srv
    /\ tfState' = state
    /\ phase' = "config"
    /\ plan' = NoPlan
    /\ UNCHANGED <<resourceType, config, fileContent, regoAttr, regoPath, regoCode,
                   vDiags, disallowedOps, echoLabels, referenced, env,
                   providerData>>

----------------------------------------------------------------------------
(* LifecyclePolicyResource handlers.                                       *)

PolicyCreate ==
    /\ resourceType = PolicyType
    /\ phase = "planned"
    /\ tfState = NoState
    /\ \E outcome \in Outcomes :
        LET conv == PolicyToAPIModel(plan)
            request == Request("POST", MarshalPolicy(conv.api))
            r == Exchange("POST", PolicyType, request.body, outcome, server, echoLabels)
            apiResponse == UnmarshalPolicy(r.body)
            state == [PolicyFromAPIModel(plan, apiResponse, Ptr(plan))
                         EXCEPT !.ID = StringValue(apiResponse.ID)]
        IN IF HasError(conv.diags)
           THEN Returns("Create", conv.diags, NoRequest, server, tfState)
           ELSE IF r.err
           THEN Returns("Create", <<"Unable to Create Resource">>, request, r.server,
                        tfState)
           ELSE IF r.status # 201
           THEN Returns("Create",
                        IF r.status = 409 THEN <<"Policy Already Exists">>
                        ELSE HandleAPIError(r.status),
                        request, r.server, tfState)
           ELSE Returns("Create", <<>>, request, r.server, state)

PolicyRead ==
    /\ resourceType = PolicyType
    /\ phase = "config"
    /\ tfState # NoState
    /\ \E outcome \in Outcomes :
        LET policyID == tfState.ID.v
            request == Request("GET", EmptyObject)
            r == Exchange("GET", PolicyType, EmptyObject, outcome, server, echoLabels)
            apiResponse == UnmarshalPolicy(r.body)
            state == [PolicyFromAPIModel(tfState, apiResponse, Ptr(tfState))
                         EXCEPT !.ID = StringValue(apiResponse.ID)]
        IN IF policyID = ""
           THEN Returns("Read", <<"Missing Policy ID">>, NoRequest, server, tfState)
           ELSE IF r.err
           THEN Returns("Read", <<"Unable to Refresh Resource">>, request, r.server,
                        tfState)
           ELSE IF r.status # 200
           THEN IF r.status = 404
                THEN Returns("Read", <<>>, request, r.server, NoState)
                ELSE Returns("Read", HandleAPIError(r.status), request, r.server,
                             tfState)
           ELSE Returns("Read", <<>>, request, r.server, state)

PolicyUpdate ==
    /\ resourceType = PolicyType
    /\ phase = "planned"
    /\ tfState # NoState
    /\ \E outcome \in Outcomes :
        LET conv == PolicyToAPIModel(plan)
            request == Request("PUT", MarshalPolicy(conv.api))
            r == Exchange("PUT", PolicyType, request.body, outcome, server, echoLabels)
            apiResponse == UnmarshalPolicy(r.body)
            state == [PolicyFromAPIModel(plan, apiResponse, Ptr(plan))
                         EXCEPT !.ID = StringValue(apiResponse.ID)]
        IN IF HasError(conv.diags)
           THEN Returns("Update", conv.diags, NoRequest, server, tfState)
           ELSE IF r.err
           THEN Returns("Update", <<"Unable to Update Resource">>, request, r.server,
                        tfState)
           ELSE IF r.status # 200
           THEN Returns("Update",
                        IF r.status = 404 THEN <<"Policy Not Found">>
                        ELSE HandleAPIError(r.status),
                        request, r.server, tfState)
           ELSE Returns("Update", <<>>, request, r.server, state)

PolicyDelete ==
    /\ resourceType = PolicyType
    /\ phase = "config"
    /\ tfState # NoState
    /\ \E outcome \in Outcomes :
        LET request == Request("DELETE", EmptyObject)
            r == Exchange("DELETE", PolicyType, EmptyObject, outcome, server,
                          echoLabels)
        IN IF r.err
           THEN Returns("Delete", <<"Unable to Delete Resource">>, request, r.server,
                        tfState)
           ELSE IF r.status = 204 \/ r.status = 404
           THEN Returns("Delete", <<>>, request, r.server, NoState)
           ELSE Returns("Delete", HandleAPIError(r.status), request, r.server, tfState)

----------------------------------------------------------------------------
(* TemplateResource handlers.                                              *)

TemplateCreate ==
    /\ resourceType = TemplateType
    /\ phase = "planned"
    /\ tfState = NoState
    /\ \E outcome \in Outcomes :
        LET conv == TemplateToAPIModel(plan, fileContent)
            request == Request("POST", MarshalTemplate(conv.api))
            r == Exchange("POST", TemplateType, request.body, outcome, server, FALSE)
            result == UnmarshalTemplate(r.body)
            regoPathValue == plan.Rego.v
            state == [TemplateFromAPIModel(plan, result)
                         EXCEPT !.Rego = StringValue(regoPathValue)]
        IN IF IsNull(plan.Rego) \/ plan.Rego.v = EmptyStr
           THEN Returns("Create", <<"Missing Rego">>, NoRequest, server, tfState)
           ELSE IF HasError(conv.diags)
           THEN Returns("Create", conv.diags, NoRequest, server, tfState)
           ELSE IF r.err
           THEN Returns("Create", <<"Unable to Create Resource">>, request, r.server,
                        tfState)
           ELSE IF IsError(r)
           THEN Returns("Create", HandleAPIError(r.status), request, r.server, tfState)
           ELSE Returns("Create", <<>>, request, r.server, state)

TemplateReadStoresResponseRego ==
    /\ resourceType = TemplateType
    /\ phase = "config"
    /\ tfState # NoState
    /\ \E outcome \in Outcomes :
        LET request == Request("GET", EmptyObject)
            r == Exchange("GET", TemplateType, EmptyObject, outcome, server, FALSE)
            result == UnmarshalTemplate(r.body)
            state == TemplateFromAPIModel(tfState, result)
        IN IF r.err
           THEN Returns("Read", <<"Unable to Refresh Resource">>, request, r.server,
                        tfState)
           ELSE IF r.status = 404
           THEN Returns("Read", <<>>, request, r.server, NoState)
           ELSE IF IsError(r)
           THEN Returns("Read", HandleAPIError(r.status), request, r.server, tfState)
           ELSE Returns("Read", <<>>, request, r.server, state)

TemplateReadRegoUntouched ==
    /\ resourceType = TemplateType
    /\ phase = "config"
    /\ tfState # NoState
    /\ \E outcome \in Outcomes :
        LET request == Request("GET", EmptyObject)
            r == Exchange("GET", TemplateType, EmptyObject, outcome, server, FALSE)
            result == UnmarshalTemplate(r.body)
            regoPathValue == tfState.Rego.v
            state == [TemplateFromAPIModel(tfState, result)
                         EXCEPT !.Rego = tfState.Rego]
        IN IF r.err
           THEN Returns("Read", <<"Unable to Refresh Resource">>, request, r.server,
                        tfState)
           ELSE IF r.status = 404
           THEN Returns("Read", <<>>, request, r.server, NoState)
           ELSE IF IsError(r)
           THEN Returns("Read", HandleAPIError(r.status), request, r.server, tfState)
           ELSE Returns("Read", <<>>, request, r.server, state)

TemplateRead ==
    /\ resourceType = TemplateType
    /\ phase = "config"
    /\ tfState # NoState
    /\ \E outcome \in Outcomes :
        LET request == Request("GET", EmptyObject)
            r == Exchange("GET", TemplateType, EmptyObject, outcome, server, FALSE)
            result == UnmarshalTemplate(r.body)
            regoPathValue == tfState.Rego.v
            state == [TemplateFromAPIModel(tfState, result)
                         EXCEPT !.Rego = StringValue(regoPathValue)]
        IN IF r.err
           THEN Returns("Read", <<"Unable to Refresh Resource">>, request, r.server,
                        tfState)
           ELSE IF r.status = 404
           THEN Returns("Read", <<>>, request, r.server, NoState)
           ELSE IF IsError(r)
           THEN Returns("Read", HandleAPIError(r.status), request, r.server, tfState)
           ELSE Returns("Read", <<>>, request, r.server, state)

TemplateUpdate ==
    /\ resourceType = TemplateType
    /\ phase = "planned"
    /\ tfState # NoState
    /\ \E outcome \in Outcomes :
        LET conv == TemplateToAPIModel(plan, fileContent)
            request == Request("PUT", MarshalTemplate(conv.api))
            r == Exchange("PUT", TemplateType, request.body, outcome, server, FALSE)
            result == UnmarshalTemplate(r.body)
            regoPathValue == plan.Rego.v
            state == [TemplateFromAPIModel(plan, result)
                         EXCEPT !.Rego = StringValue(regoPathValue)]
        IN IF IsNull(plan.Rego) \/ plan.Rego.v = EmptyStr
           THEN Returns("Update", <<"Missing Rego">>, NoRequest, server, tfState)
           ELSE IF HasError(conv.diags)
           THEN Returns("Update", conv.diags, NoRequest, server, tfState)
           ELSE IF r.err
           THEN Returns("Update", <<"Unable to Update Resource">>, request, r.server,
                        tfState)
           ELSE IF IsError(r)
           THEN Returns("Update", HandleAPIError(r.status), request, r.server, tfState)
           ELSE Returns("Update", <<>>, request, r.server, state)

TemplateDelete ==
    /\ resourceType = TemplateType
    /\ phase = "config"
    /\ tfState # NoState
    /\ \E outcome \in Outcomes :
        LET request == Request("DELETE", EmptyObject)
            r == Exchange("DELETE", TemplateType, EmptyObject, outcome, server, FALSE)
        IN IF r.err
           THEN Returns("Delete", <<"Unable to Delete Resource">>, request, r.server,
                        tfState)
           ELSE IF r.status # 404 /\ r.status # 204
           THEN Returns("Delete", HandleAPIError(r.status), request, r.server, tfState)
           ELSE Returns("Delete", <<>>, request, r.server, NoState)

----------------------------------------------------------------------------
(* RuleResource handlers.                                                  *)

RuleCreate ==
    /\ resourceType = RuleType
    /\ phase = "planned"
    /\ tfState = NoState
    /\ \E outcome \in Outcomes :
        LET conv == RuleToAPIModel(plan)
            request == Request("POST", MarshalRule(conv.api))
            r == Exchange("POST", RuleType, request.body, outcome, server, FALSE)
            result == UnmarshalRule(r.body)
        IN IF HasError(conv.diags)
           THEN Returns("Create", conv.diags, NoRequest, server, tfState)
           ELSE IF r.err
           THEN Returns("Create", <<"Unable to Create Resource">>, request, r.server,
                        tfState)
           ELSE IF IsError(r)
           THEN Returns("Create",
                        IF r.status = 409 \/ (r.status = 500 /\ r.unique)
                        THEN <<"Rule Already Exists">>
                        ELSE HandleAPIError(r.status),
                        request, r.server, tfState)
           ELSE Returns("Create", <<>>, request, r.server,
                        RuleFromAPIModel(plan, result))

RuleReadNotFoundIsError ==
    /\ resourceType = RuleType
    /\ phase = "config"
    /\ tfState # NoState
    /\ \E outcome \in Outcomes :
        LET request == Request("GET", EmptyObject)
            r == Exchange("GET", RuleType, EmptyObject, outcome, server, FALSE)
            result == UnmarshalRule(r.body)
        IN IF r.err
           THEN Returns("Read", <<"Unable to Refresh Resource">>, request, r.server,
                        tfState)
           ELSE IF IsError(r)
           THEN Returns("Read", HandleAPIError(r.status), request, r.server, tfState)
           ELSE Returns("Read", <<>>, request, r.server,
                        RuleFromAPIModel(tfState, result))

RuleRead ==
    /\ resourceType = RuleType
    /\ phase = "config"
    /\ tfState # NoState
    /\ \E outcome \in Outcomes :
        LET request == Request("GET", EmptyObject)
            r == Exchange("GET", RuleType, EmptyObject, outcome, server, FALSE)
            result == UnmarshalRule(r.body)
        IN IF r.err
           THEN Returns("Read", <<"Unable to Refresh Resource">>, request, r.server,
                        tfState)
           ELSE IF r.status = 404
           THEN Returns("Read", <<>>, request, r.server, NoState)
           ELSE IF IsError(r)
           THEN Returns("Read", HandleAPIError(r.status), request, r.server, tfState)
           ELSE Returns("Read", <<>>, request, r.server,
                        RuleFromAPIModel(tfState, result))

RuleUpdate ==
    /\ resourceType = RuleType
    /\ phase = "planned"
    /\ tfState # NoState
    /\ \E outcome \in Outcomes :
        LET conv == RuleToAPIModel(plan)
            request == Request("PUT", MarshalRule(conv.api))
            r == Exchange("PUT", RuleType, request.body, outcome, server, FALSE)
            result == UnmarshalRule(r.body)
        IN IF HasError(conv.diags)
           THEN Returns("Update", conv.diags, NoRequest, server, tfState)
           ELSE IF r.err
           THEN Returns("Update", <<"Unable to Update Resource">>, request, r.server,
                        tfState)
           ELSE IF IsError(r)
           THEN Returns("Update",
                        IF r.status = 409 THEN <<"Rule Name Conflict">>
                        ELSE HandleAPIError(r.status),
                        request, r.server, tfState)
           ELSE Returns("Update", <<>>, request, r.server,
                        RuleFromAPIModel(plan, result))

RuleDeleteConflictAsGone ==
    /\ resourceType = RuleType
    /\ phase = "config"
    /\ tfState # NoState
    /\ \E outcome \in Outcomes :
        LET request == Request("DELETE", EmptyObject)
            r == Exchange("DELETE", RuleType, EmptyObject,
                          IF referenced /\ outcome = "ok" THEN "conflict" ELSE outcome,
                          server, FALSE)
        IN IF r.err
           THEN Returns("Delete", <<"Unable to Delete Resource">>, request, r.server,
                        tfState)
           ELSE IF r.status # 404 /\ r.status # 204 /\ r.status # 409
           THEN Returns("Delete", HandleAPIError(r.status), request, r.server, tfState)
           ELSE Returns("Delete", <<>>, request, r.server, NoState)

RuleDelete ==
    /\ resourceType = RuleType
    /\ phase = "config"
    /\ tfState # NoState
    /\ \E outcome \in Outcomes :
        LET request == Request("DELETE", EmptyObject)
            r == Exchange("DELETE", RuleType, EmptyObject,
                          IF referenced /\ outcome = "ok" THEN "conflict" ELSE outcome,
                          server, FALSE)
        IN IF r.err
           THEN Returns("Delete", <<"Unable to Delete Resource">>, request, r.server,
                        tfState)
           ELSE IF r.status # 404 /\ r.status # 204
           THEN Returns("Delete",
                        IF r.status = 409 THEN <<"Rule In Use">>
                        ELSE HandleAPIError(r.status),
                        request, r.server, tfState)
           ELSE Returns("Delete", <<>>, request, r.server, NoState)

----------------------------------------------------------------------------
(* The Terraform run around the handlers, and the environment.             *)

\* The state resource.ImportStatePassthroughID leaves: the id alone.
ImportedState(type) ==
    IF type = TemplateType
    THEN TemplateModel(StringValue(ServerID), StringNull, StringNull, StringNull,
                       StringNull, StringNull, ListNull, RegoNull, ListNull, BoolNull)
    ELSE IF type = RuleType
    THEN RuleModel(StringValue(ServerID), StringNull, StringNull, BoolNull,
                   StringNull, ListNull)
    ELSE PolicyModel(StringValue(ServerID), StringNull, StringNull, BoolNull,
                     StringNull, ObjectNull, ObjectNull, ListNull)

ImportState ==
    /\ phase = "config"
    /\ tfState = NoState
    /\ tfState' = ImportedState(resourceType)
    /\ lastOp' = "ImportState"
    /\ lastRequest' = NoRequest
    /\ opDiags' = <<>>
    /\ UNCHANGED <<resourceType, config, fileContent, regoAttr, regoPath, phase,
                   regoCode, vDiags, disallowedOps, server, echoLabels, referenced, env,
                   providerData, plan>>

\* The lifecycle policy's schema validators run on the configuration.
ValidateConfig ==
    /\ resourceType = PolicyType
    /\ phase \in {"config", "invalid"}
    /\ vDiags' = PolicySchemaDiags(config)
    /\ phase' = IF PolicySchemaDiags(config) = <<>> THEN "validated" ELSE "invalid"
    /\ UNCHANGED <<resourceType, config, fileContent, regoAttr, regoPath, regoCode,
                   disallowedOps, server, echoLabels, referenced, env,
                   providerData, tfState, plan, lastOp,
                   lastRequest, opDiags>>

\* Terraform plans the validated configuration.
PlanResource ==
    /\ \/ phase = "validated"
       \/ resourceType = RuleType /\ phase = "config"
    /\ resourceType = TemplateType => regoAttr = "known"
    /\ plan' = PlanOf(resourceType, config, regoPath, tfState)
    /\ phase' = "planned"
    /\ UNCHANGED <<resourceType, config, fileContent, regoAttr, regoPath, regoCode,
                   vDiags, disallowedOps, server, echoLabels, referenced, env,
                   providerData, tfState, lastOp,
                   lastRequest, opDiags>>

\* The user edits the resource block between two runs.
Configure ==
    /\ phase \in {"config", "invalid"}
    /\ \E c \in Configs(resourceType) \ {config} : config' = c
    /\ phase' = "config"
    /\ UNCHANGED <<resourceType, fileContent, regoAttr, regoPath, regoCode, vDiags,
                   disallowedOps, server, echoLabels, referenced, env,
                   providerData, tfState, plan, lastOp,
                   lastRequest, opDiags>>

\* The .rego file is rewritten or removed on disk, at any moment.
EditFile ==
    /\ resourceType = TemplateType
    /\ \E f \in FileContents \ {fileContent} : fileContent' = f
    /\ UNCHANGED <<resourceType, config, regoAttr, regoPath, phase, regoCode, vDiags,
                   disallowedOps, server, echoLabels, referenced, env,
                   providerData, tfState, plan, lastOp,
                   lastRequest, opDiags>>

\* The entity is deleted on the server behind Terraform's back.
RemoteDelete ==
    /\ server # NoEntity
    /\ ~referenced
    /\ server' = NoEntity
    /\ UNCHANGED <<resourceType, config, fileContent, regoAttr, regoPath, phase,
                   regoCode, vDiags, disallowedOps, echoLabels, referenced, env,
                   providerData, tfState, plan, lastOp,
                   lastRequest, opDiags>>

\* A lifecycle policy on the remote system takes the rule into its rule_ids.
ReferenceRule ==
    /\ resourceType = RuleType
    /\ server # NoEntity
    /\ ~referenced
    /\ referenced' = TRUE
    /\ UNCHANGED <<resourceType, config, fileContent, regoAttr, regoPath, phase,
                   regoCode, vDiags, disallowedOps, server, echoLabels, env, providerData, tfState, plan,
                   lastOp, lastRequest, opDiags>>

\* The rule is removed from every lifecycle policy that had it.
ReleaseRule ==
    /\ referenced
    /\ referenced' = FALSE
    /\ UNCHANGED <<resourceType, config, fileContent, regoAttr, regoPath, phase,
                   regoCode, vDiags, disallowedOps, server, echoLabels, env, providerData, tfState, plan,
                   lastOp, lastRequest, opDiags>>

\* An entity that exists on the server before Terraform manages it.
ExistingEntity(type) ==
    IF type = TemplateType
    THEN Entity(Stored(type, MarshalTemplate(
             TemplateToAPIModel(PlanOf(type, BaseTemplate, GoodPath, NoState),
                                ModuleText(SingleCallModule(OpCount))).api)))
    ELSE IF type = RuleType
    THEN Entity(Stored(type, MarshalRule(
             RuleToAPIModel(PlanOf(type, BaseRule, <<>>, NoState)).api)))
    ELSE Entity(Stored(type, MarshalPolicy(
             PolicyToAPIModel(PlanOf(type, BasePolicy, <<>>, NoState)).api)))

Init ==
    /\ resourceType \in {TemplateType, RuleType, PolicyType}
    /\ config \in Configs(resourceType)
    /\ IF resourceType = TemplateType
       THEN /\ regoAttr = "known"
            /\ regoPath = GoodPath
            /\ fileContent \in FileContents
       ELSE /\ regoAttr = "null"
            /\ regoPath = <<>>
            /\ fileContent = NoFile
    /\ echoLabels \in (IF resourceType = PolicyType THEN BOOLEAN ELSE {FALSE})
    /\ server \in {NoEntity, ExistingEntity(resourceType)}
    /\ referenced \in (IF resourceType = RuleType /\ server # NoEntity THEN BOOLEAN
                       ELSE {FALSE})
    /\ env = NoEnv
    /\ providerData = NoClient
    /\ phase = "config"
    /\ regoCode = EmptyText
    /\ vDiags = <<>>
    /\ disallowedOps = <<>>
    /\ tfState = NoState
    /\ plan = NoPlan
    /\ lastOp = ""
    /\ lastRequest = NoRequest
    /\ opDiags = <<>>

Next ==
    \/ ValidateString
    \/ ValidateConfig
    \/ PlanResource
    \/ Configure
    \/ ImportState
    \/ TemplateCreate
    \/ TemplateRead
    \/ TemplateUpdate
    \/ TemplateDelete
    \/ RuleCreate
    \/ RuleRead
    \/ RuleUpdate
    \/ RuleDelete
    \/ PolicyCreate
    \/ PolicyRead
    \/ PolicyUpdate
    \/ PolicyDelete
    \/ EditFile
    \/ RemoteDelete
    \/ ReferenceRule
    \/ ReleaseRule

Spec == Init /\ [][Next]_vars

----------------------------------------------------------------------------
(* The mappers on their own: toAPIModel applied to every local model of a  *)
(* bounded set, and fromAPIModel applied to the wire form toAPIModel made  *)
(* or to a response of a bounded set.                                      *)

Descriptions == {StringNull, StringValue(""), StringValue("d")}

TemplateParameters == ListValue(<<ParameterObject(StringValue("p"), StringValue("string"))>>)

RuleParameters == ListValue(<<RuleParameterObject(StringValue("p"), StringValue("1"))>>)

MapperStages ==
    {ObjectNull, Stage,
     StageObject(StringNull, StringValue("entry")),
     StageObject(StringValue("s"), StringNull)}

MapperActions ==
    {ObjectNull} \cup {ActionObject(StringValue("certify_to_gate"), st) : st \in MapperStages}

MapperKeys(k) == {ListNull, ListValue(<<>>), StringList(<<k>>), StringList(<<k, "z">>)}

MapperScopes ==
    {ObjectNull}
    \cup {ProjectScope(ks, l) : ks \in MapperKeys("p"), l \in {NoLabels, Labels("v1")}}
    \cup {ApplicationScope(ks, l) : ks \in MapperKeys("a"), l \in {ListNull, NoLabels, Labels("v1")}}
    \cup {ScopeObject(StringValue(t), StringList(<<"p">>), StringList(<<"a">>), NoLabels) :
             t \in {"project", "application"}}

MapperRuleIDs == {ListNull, ListValue(<<>>), StringList(<<"r1">>), StringList(<<"r1", "r2">>)}

MapperPolicies ==
    {PolicyModel(StringUnknown, StringValue("n"), d, BoolValue(TRUE), StringValue("block"), a, sc, r) :
        d \in Descriptions, a \in MapperActions, sc \in MapperScopes, r \in MapperRuleIDs}

MapperTemplates ==
    {TemplateModel(StringUnknown, StringValue("n"), d, StringValue("1"), StringValue("security"),
                   StringValue("noop"), ps, StringValue(PathStr(GoodPath)), sc, BoolUnknown) :
        d \in Descriptions,
        ps \in {ListNull, ListValue(<<>>), TemplateParameters},
        sc \in {ListNull, ListValue(<<>>), StringList(<<"sca">>)}}

MapperRules ==
    {RuleModel(StringUnknown, StringValue("n"), d, c, StringValue("t1"), ps) :
        d \in Descriptions \cup {StringUnknown},
        c \in {BoolUnknown, BoolValue(TRUE), BoolValue(FALSE)},
        ps \in {ListNull, ListValue(<<>>), RuleParameters}}

MapperModels(type) ==
    IF type = TemplateType THEN MapperTemplates
    ELSE IF type = RuleType THEN MapperRules
    ELSE MapperPolicies

\* The description of a response: left out, empty or set.
WireDescriptions == {EmptyObject, "description" :> "", "description" :> "d"}

WireScopes ==
    {[type |-> "application"],
     [type |-> "application", application_keys |-> <<"a">>],
     [type |-> "application", application_labels |-> <<[key |-> "k", value |-> "v2"]>>],
     [type |-> "project", project_keys |-> <<"p">>]}

PolicyResponses ==
    {("id" :> ServerID) @@ ("name" :> "n") @@ d @@ ("enabled" :> TRUE) @@ ("mode" :> "warning")
     @@ ("action" :> [type |-> "certify_to_gate", stage |-> [key |-> "s", gate |-> "exit"]])
     @@ ("scope" :> sc) @@ r :
        d \in WireDescriptions, sc \in WireScopes,
        r \in {EmptyObject, "rule_ids" :> <<"r1">>}}

TemplateResponses ==
    {("id" :> ServerID) @@ ("name" :> "n") @@ d @@ ("version" :> "1")
     @@ ("category" :> "security") @@ ("data_source_type" :> "noop") @@ ps
     @@ ("rego" :> ModuleText(SingleCallModule(OpCount))) @@ sc @@ ("is_custom" :> c) :
        d \in WireDescriptions,
        ps \in {EmptyObject, "parameters" :> <<[name |-> "p", type |-> "string"]>>},
        sc \in {EmptyObject, "scanners" :> <<"sca">>},
        c \in BOOLEAN}

RuleResponses ==
    {("id" :> ServerID) @@ ("name" :> "n") @@ d @@ ("template_id" :> "t1") @@ ps @@ c :
        d \in WireDescriptions,
        ps \in {EmptyObject, "parameters" :> <<[name |-> "p", value |-> "1"]>>},
        c \in {EmptyObject, "is_custom" :> TRUE}}

MapperResponses(type) ==
    IF type = TemplateType THEN TemplateResponses
    ELSE IF type = RuleType THEN RuleResponses
    ELSE PolicyResponses

\* The models fromAPIModel is called on when a response arrives: the state
\* an import left, or a model that already has its attributes.
PriorModels(type) ==
    {ImportedState(type)}
    \cup (IF type = TemplateType
          THEN {m \in MapperTemplates : m.Parameters = TemplateParameters /\ IsNull(m.Scanners)}
          ELSE IF type = RuleType
          THEN {m \in MapperRules : m.Parameters = RuleParameters /\ m.IsCustom = BoolValue(FALSE)}
          ELSE {m \in MapperPolicies :
                   /\ m.Action = Action /\ m.RuleIDs = StringList(<<"r1">>)
                   /\ m.Scope \in {ApplicationScope(StringList(<<"a">>), Labels("v1")),
                                   ApplicationScope(StringList(<<"a">>), NoLabels)}})

ToAPI(type, m, file) ==
    IF type = TemplateType
    THEN [body |-> MarshalTemplate(TemplateToAPIModel(m, file).api),
          diags |-> TemplateToAPIModel(m, file).diags]
    ELSE IF type = RuleType
    THEN [body |-> MarshalRule(RuleToAPIModel(m).api), diags |-> RuleToAPIModel(m).diags]
    ELSE [body |-> MarshalPolicy(PolicyToAPIModel(m).api), diags |-> PolicyToAPIModel(m).diags]

FromAPI(type, m, body) ==
    IF type = TemplateType THEN TemplateFromAPIModel(m, UnmarshalTemplate(body))
    ELSE IF type = RuleType THEN RuleFromAPIModel(m, UnmarshalRule(body))
    ELSE PolicyFromAPIModel(m, UnmarshalPolicy(body), Ptr(m))

\* toAPIModel and json.Marshal applied to the local model.
ApplyToAPIModel ==
    /\ phase = "local"
    /\ server = NoEntity
    /\ lastRequest' = Request("POST", ToAPI(resourceType, plan, fileContent).body)
    /\ opDiags' = ToAPI(resourceType, plan, fileContent).diags
    /\ lastOp' = "toAPIModel"
    /\ phase' = "wire"
    /\ UNCHANGED <<resourceType, config, fileContent, regoAttr, regoPath, regoCode,
                   vDiags, disallowedOps, server, echoLabels, referenced, env,
                   providerData, tfState, plan>>

\* json.Unmarshal and fromAPIModel applied to the wire form just made, or
\* to a response, on the local model.
ApplyFromAPIModel ==
    /\ \/ phase = "wire" /\ opDiags = <<>>
       \/ phase = "local" /\ server # NoEntity
    /\ tfState' = FromAPI(resourceType, plan,
                          IF phase = "wire" THEN lastRequest.body ELSE server.body)
    /\ lastOp' = "fromAPIModel"
    /\ phase' = "local-again"
    /\ UNCHANGED <<resourceType, config, fileContent, regoAttr, regoPath, regoCode,
                   vDiags, disallowedOps, server, echoLabels, referenced, env,
                   providerData, plan, lastRequest, opDiags>>

InitMapper ==
    /\ resourceType \in {TemplateType, RuleType, PolicyType}
    /\ \/ plan \in MapperModels(resourceType) /\ server = NoEntity
       \/ /\ plan \in PriorModels(resourceType)
          /\ server \in {Entity(b) : b \in MapperResponses(resourceType)}
    /\ fileContent = IF resourceType = TemplateType
                     THEN ModuleText(SingleCallModule(OpCount)) ELSE NoFile
    /\ config = NoPlan
    /\ regoAttr = "null"
    /\ regoPath = <<>>
    /\ phase = "local"
    /\ regoCode = EmptyText
    /\ vDiags = <<>>
    /\ disallowedOps = <<>>
    /\ echoLabels = FALSE
    /\ referenced = FALSE
    /\ env = NoEnv
    /\ providerData = NoClient
    /\ tfState = NoState
    /\ lastOp = ""
    /\ lastRequest = NoRequest
    /\ opDiags = <<>>

NextMapper == ApplyToAPIModel \/ ApplyFromAPIModel

SpecMapper == InitMapper /\ [][NextMapper]_vars

----------------------------------------------------------------------------
(* The provider: UnifiedPolicyProvider.Configure on a provider block and   *)
(* the environment of the process.                                         *)

\* The value each environment variable has when it is set.
EnvValue ==
    [n \in EnvNames |->
        CASE n = "JFROG_URL" -> "https://jfrog-url"
          [] n = "ARTIFACTORY_URL" -> "https://artifactory-url"
          [] n = "JFROG_ACCESS_TOKEN" -> "jfrog-token"
          [] n = "ARTIFACTORY_ACCESS_TOKEN" -> "artifactory-token"
          [] n = "JFROG_API_KEY" -> "jfrog-key"
          [] OTHER -> "artifactory-key"]

Envs == {[n \in EnvNames |-> IF n \in set THEN EnvValue[n] ELSE ""] : set \in SUBSET EnvNames}

\* UnifiedPolicyProviderModel
ProviderModel(url, accessToken, apiKey) ==
    [Url |-> url, AccessToken |-> accessToken, ApiKey |-> apiKey]

ProviderConfigs ==
    {ProviderModel(url, accessToken, apiKey) :
        url \in {StringNull, StringValue("https://block-url")},
        accessToken \in {StringNull, StringValue("block-token")},
        apiKey \in {StringNull, StringValue(""), StringValue("block-key")}}

\* util.CheckEnvVars: the value of the first variable of the list that is
\* set, or the default.
RECURSIVE CheckEnvVars(_, _, _)
CheckEnvVars(e, names, default) ==
    IF names = <<>> THEN default
    ELSE IF e[Head(names)] # "" THEN e[Head(names)]
    ELSE CheckEnvVars(e, Tail(names), default)

\* What the remote system and the client library do during Configure.
ProviderOutcomes ==
    {"ok", "build", "auth", "artifactory-unreachable", "artifactory-old",
     "xray-unreachable", "xray-old"}

\* util.ProviderMetadata: the client with the credential AddAuth gave it.
Client(url, apiKey, accessToken) ==
    [st |-> "client", url |-> url, apiKey |-> apiKey, accessToken |-> accessToken]

MissingCredentials == "Missing JFrog API key or Access Token"

\* UnifiedPolicyProvider.Configure: [diags, data].
ConfigureProvider(c, e, outcome) ==
    LET envUrl == CheckEnvVars(e, <<"JFROG_URL", "ARTIFACTORY_URL">>, "")
        envToken == CheckEnvVars(e, <<"JFROG_ACCESS_TOKEN", "ARTIFACTORY_ACCESS_TOKEN">>, "")
        url == IF c.Url.v # "" THEN c.Url.v ELSE envUrl
        accessToken == IF c.AccessToken.v # "" THEN c.AccessToken.v ELSE envToken
        apiKey == c.ApiKey.v
        failed(d) == [diags |-> <<d>>, data |-> NoClient]
    IN IF url = "" THEN failed("Missing URL Configuration")
       ELSE IF outcome = "build" THEN failed("Error creating Resty client")
       ELSE IF apiKey = "" /\ accessToken = "" THEN failed(MissingCredentials)
       ELSE IF outcome = "auth" THEN failed("Error adding Auth to Resty client")
       ELSE IF outcome = "artifactory-unreachable"
       THEN failed("Error getting Artifactory version")
       ELSE IF outcome = "artifactory-old" THEN failed("Incompatible Artifactory version")
       ELSE IF outcome = "xray-unreachable" THEN failed("Error getting Xray version")
       ELSE IF outcome = "xray-old" THEN failed("Incompatible Xray version")
       ELSE [diags |-> <<>>, data |-> Client(url, apiKey, accessToken)]

ProviderConfigure ==
    /\ phase = "provider"
    /\ \E outcome \in ProviderOutcomes :
        /\ opDiags' = ConfigureProvider(config, env, outcome).diags
        /\ providerData' = ConfigureProvider(config, env, outcome).data
    /\ lastOp' = "Configure"
    /\ phase' = "configured"
    /\ UNCHANGED <<resourceType, config, fileContent, regoAttr, regoPath, regoCode,
                   vDiags, disallowedOps, server, echoLabels, referenced, env, tfState,
                   plan, lastRequest>>

InitProvider ==
    /\ config \in ProviderConfigs
    /\ env \in Envs
    /\ providerData = NoClient
    /\ phase = "provider"
    /\ resourceType = ""
    /\ fileContent = NoFile
    /\ regoAttr = "null"
    /\ regoPath = <<>>
    /\ regoCode = EmptyText
    /\ vDiags = <<>>
    /\ disallowedOps = <<>>
    /\ server = NoEntity
    /\ echoLabels = FALSE
    /\ referenced = FALSE
    /\ tfState = NoState
    /\ plan = NoPlan
    /\ lastOp = ""
    /\ lastRequest = NoRequest
    /\ opDiags = <<>>

NextProvider == ProviderConfigure

SpecProvider == InitProvider /\ [][NextProvider]_vars

----------------------------------------------------------------------------
(* Properties of the validator.                                            *)

Range(q) == {q[i] : i \in 1..Len(q)}

\* Every invocation of a module, in source order: the operator of each call
\* expression and of each call nested in a term.
RECURSIVE ExprsCalls(_), TermsCalls(_)
ExprsCalls(es) ==
    IF es = <<>> THEN <<>>
    ELSE LET e == Head(es) IN
         (IF e.isCall THEN <<e.terms[1].ref>> ELSE <<>>)
         \o TermsCalls(e.terms) \o ExprsCalls(Tail(es))

TermsCalls(ts) ==
    IF ts = <<>> THEN <<>>
    ELSE LET t == Head(ts) IN
         (IF t.k = "call" THEN <<t.terms[1].ref>> \o TermsCalls(t.terms)
          ELSE IF t.k = "compr" THEN TermsCalls(t.terms) \o ExprsCalls(t.body)
          ELSE <<>>)
         \o TermsCalls(Tail(ts))

QualifiedName(parts) == JoinParts(parts)

NotAllowListed(parts) ==
    /\ QualifiedName(parts) \notin GetAllowedRegoOperations
    /\ parts[Len(parts)] \notin GetAllowedRegoOperations

\* The names of the invocations of a module that are not allow-listed, each
\* once, in the order of their first appearance.
RECURSIVE FirstAppearances(_, _)
FirstAppearances(calls, sofar) ==
    IF calls = <<>> THEN <<>>
    ELSE LET n == QualifiedName(Head(calls)) IN
         IF NotAllowListed(Head(calls)) /\ n \notin sofar
         THEN <<n>> \o FirstAppearances(Tail(calls), sofar \cup {n})
         ELSE FirstAppearances(Tail(calls), sofar)

DisallowedNames(module) == FirstAppearances(ExprsCalls(module), {})

Outcome == IF vDiags = <<>> THEN "valid" ELSE vDiags[1].summary

\* The validator ran on a readable file named by a known, well-formed path.
Validated == phase # "config" /\ regoAttr = "known" /\ Outcome # "Rego Error"

\* The validator parsed the text and walked the module.
Walked ==
    Validated /\ Outcome \in {"valid", "Disallowed Rego Operations"}

\* C1: every invocation of a parsed module whose name is not allow-listed is
\* on the disallowed list, wherever it occurs: as a statement, as an argument
\* of another call, inside a comprehension.
C1_EveryInvocationChecked ==
    Walked =>
        \A i \in 1..Len(ExprsCalls(regoCode.module)) :
            NotAllowListed(ExprsCalls(regoCode.module)[i]) =>
                QualifiedName(ExprsCalls(regoCode.module)[i]) \in Range(disallowedOps)

\* C2: once the source parses, validation succeeds exactly when no invocation
\* of the module has a name that is neither allow-listed in full nor by its
\* last segment, and the disallowed list holds exactly the names of those
\* invocations.
C2_SuccessIffNothingDisallowed ==
    Walked =>
        /\ Range(disallowedOps) = Range(DisallowedNames(regoCode.module))
        /\ (Outcome = "valid") <=> (DisallowedNames(regoCode.module) = <<>>)

\* C3: none of the excluded names is allow-listed, in full or by its last
\* segment, and a module whose only invocation is one of them is rejected
\* with exactly that name.
C3_ExcludedNamesRejected ==
    /\ \A op \in ExcludedOps : NotAllowListed(op)
    /\ Walked =>
        \A op \in ExcludedOps :
            ExprsCalls(regoCode.module) = <<op>> =>
                /\ Outcome = "Disallowed Rego Operations"
                /\ disallowedOps = <<QualifiedName(op)>>

\* C6: the disallowed list holds each distinct disallowed name of the module
\* exactly once, in the order of first appearance.
C6_EachNameOnceInOrder ==
    Walked => disallowedOps = DisallowedNames(regoCode.module)

\* C7: a non-empty source is rejected as too long exactly when it has more
\* than 65,536 characters.
C7_TooLongIffOverCeiling ==
    (Validated /\ regoCode.chars > 0) =>
        ((Outcome = "Rego Code Too Long") <=> (regoCode.chars > maxRegoChars))

\* C5: a readable file gets exactly one outcome, chosen in the order empty,
\* too long, syntax error, disallowed operations, valid: an empty text is
\* reported empty; a text over the ceiling is reported too long whatever it
\* holds; a text that does not parse is never reported for disallowed
\* operations or accepted; the later outcomes are reached only by a text
\* that passed every earlier check.
C5_OutcomePrecedence ==
    Validated =>
        /\ Len(vDiags) <= 1
        /\ Outcome \in {"Empty Rego", "Rego Code Too Long", "Invalid Rego Syntax",
                        "Disallowed Rego Operations", "valid"}
        /\ (Outcome = "Empty Rego") <=> (regoCode.chars = 0)
        /\ regoCode.chars > maxRegoChars => Outcome = "Rego Code Too Long"
        /\ Outcome = "Rego Code Too Long" => regoCode.chars > 0
        /\ Outcome = "Invalid Rego Syntax" =>
              regoCode.chars \in 1..maxRegoChars /\ ~regoCode.parses
        /\ (regoCode.bytes \in 1..maxRegoChars /\ ~regoCode.parses) =>
              Outcome = "Invalid Rego Syntax"
        /\ Outcome \in {"Disallowed Rego Operations", "valid"} =>
              regoCode.chars \in 1..maxRegoChars /\ regoCode.parses
        /\ (Outcome = "Disallowed Rego Operations") => disallowedOps # <<>>
        /\ (Outcome = "valid") => disallowedOps = <<>>

\* A text over the ceiling that does not parse either was reported too long.
C5_Witness ==
    /\ Validated
    /\ regoCode.chars > maxRegoChars
    /\ ~regoCode.parses
    /\ Outcome = "Rego Code Too Long"

----------------------------------------------------------------------------
(* Properties of the handlers.                                             *)

\* C4: the Rego text in the rego field of every template create or update
\* request has passed the validator: it is non-empty, within the size
\* ceiling, parses and has no disallowed invocation, also when the file
\* changed between validation and apply.
C4_RequestRegoValidated ==
    (resourceType = TemplateType /\ lastRequest.method \in {"POST", "PUT"}) =>
        ValidateContent(lastRequest.body["rego"]).diags = <<>>

\* The local-to-wire conversion of the plan reports an error.
ConversionFails ==
    IF resourceType = TemplateType
    THEN TemplateToAPIModel(plan, fileContent).diags # <<>>
    ELSE IF resourceType = RuleType
    THEN RuleToAPIModel(plan).diags # <<>>
    ELSE PolicyToAPIModel(plan).diags # <<>>

CreateOrUpdate ==
    \/ TemplateCreate \/ TemplateUpdate
    \/ RuleCreate \/ RuleUpdate
    \/ PolicyCreate \/ PolicyUpdate

\* C8: for every entity kind, a Create or Update whose local-to-wire
\* conversion reports an error sends no request to the policy API, leaves
\* the remote system unchanged and writes no local state.
C8_ConversionErrorStopsHandler ==
    [][(CreateOrUpdate /\ ConversionFails) =>
          /\ lastRequest' = NoRequest
          /\ server' = server
          /\ tfState' = tfState
          /\ opDiags' # <<>>]_vars

\* An Update of an existing policy stopped on an invalid scope, and a
\* template Create stopped on an unreadable file.
C8_Witness ==
    /\ lastOp = "Update"
    /\ resourceType = PolicyType
    /\ opDiags = <<"Invalid Scope Configuration">>
    /\ lastRequest = NoRequest
    /\ server # NoEntity
    /\ tfState # NoState

\* The application_labels of a resource model with a scope.
LabelsOf(m) == m.Scope.attrs.application_labels

\* C9: with a server that never returns application labels, a Create or
\* Update that supplied labels L leaves L in the local state, every Read
\* after it keeps the labels of the state, and an Update supplying other
\* labels L' makes the state hold L'.
C9_LabelsPreserved ==
    [][(resourceType = PolicyType /\ ~echoLabels) =>
          /\ ((PolicyCreate \/ PolicyUpdate) /\ opDiags' = <<>>) =>
                /\ tfState' # NoState
                /\ tfState'.Scope.st = "known"
                /\ LabelsOf(tfState') = LabelsOf(plan)
          /\ ((PolicyCreate \/ PolicyUpdate) /\ opDiags' # <<>>) =>
                tfState' = tfState
          /\ (PolicyRead /\ tfState.Scope.st = "known" /\ tfState' # NoState) =>
                /\ tfState'.Scope.st = "known"
                /\ LabelsOf(tfState') = LabelsOf(tfState)]_vars

\* A Read kept the labels that an Update put in place of the first ones.
C9_Witness ==
    /\ resourceType = PolicyType
    /\ ~echoLabels
    /\ lastOp = "Read"
    /\ lastRequest.method = "GET"
    /\ opDiags = <<>>
    /\ tfState # NoState
    /\ tfState.Scope.st = "known"
    /\ LabelsOf(tfState) = Labels("v2")
    /\ config = BasePolicy

\* The previous-local labels value that a handler passes as the fallback:
\* the plan's during Create and Update, the state's during Read.
PreviousLabels ==
    LET previous == IF phase = "planned" THEN plan ELSE tfState
    IN IF previous.Scope.st = "known" THEN LabelsOf(previous) ELSE ListNull

\* A handler stored the conversion of a response that carries no labels.
StoredWithoutResponseLabels ==
    /\ resourceType = PolicyType
    /\ PolicyCreate \/ PolicyUpdate \/ PolicyRead
    /\ opDiags' = <<>>
    /\ tfState' # NoState
    /\ server' # NoEntity
    /\ ~Has(ResponseBody(PolicyType, server'.body, echoLabels)["scope"],
            "application_labels")

\* C10: wire-to-local conversion with no labels in the response yields the
\* previous-local labels when that list is non-empty, and an empty list
\* (present, of length zero) when there is no previous-local labels value.
C10_EmptyListWithoutPrevious ==
    [][StoredWithoutResponseLabels =>
          /\ (PreviousLabels.st = "known" /\ Len(PreviousLabels.elems) > 0) =>
                LabelsOf(tfState') = PreviousLabels
          /\ IsNull(PreviousLabels) => LabelsOf(tfState') = ListValue(<<>>)]_vars

\* C10 as amended: with no previous-local labels value the conversion
\* yields an unset (null) list; a previous-local list, empty or not, is
\* kept as it is.
C10_NullWithoutPrevious ==
    [][StoredWithoutResponseLabels =>
          /\ (PreviousLabels.st = "known" /\ Len(PreviousLabels.elems) > 0) =>
                LabelsOf(tfState') = PreviousLabels
          /\ (PreviousLabels.st = "known" /\ Len(PreviousLabels.elems) = 0) =>
                LabelsOf(tfState') = ListValue(<<>>)
          /\ IsNull(PreviousLabels) => LabelsOf(tfState') = ListNull]_vars

\* A Read of an imported policy stored a scope whose labels are unset.
C10_Witness ==
    /\ resourceType = PolicyType
    /\ lastOp = "Read"
    /\ opDiags = <<>>
    /\ tfState # NoState
    /\ tfState.Scope.st = "known"
    /\ LabelsOf(tfState) = ListNull


----------------------------------------------------------------------------
(* Properties of the mappers.                                              *)

\* The attributes a configuration sets, which toAPIModel puts on the wire;
\* the identifier and the custom flag are the server's, and the template's
\* rego holds a path locally and the text on the wire.
Configured(type, m) ==
    IF type = TemplateType
    THEN <<m.Name, m.Description, m.Version, m.Category, m.DataSourceType,
           m.Parameters, m.Scanners>>
    ELSE IF type = RuleType
    THEN <<m.Name, m.Description, m.TemplateID, m.Parameters>>
    ELSE <<m.Name, m.Description, m.Enabled, m.Mode, m.Action, m.Scope, m.RuleIDs>>

\* fromAPIModel has been applied to the wire form toAPIModel made of plan.
RoundTripped == phase = "local-again" /\ lastRequest # NoRequest

\* What a list comes back as after a round trip.
EmptyIfNull(list) == IF IsNull(list) THEN ListValue(<<>>) ELSE list
NullIfEmpty(list) == IF ~IsNull(list) /\ list.elems = <<>> THEN ListNull ELSE list

\* The local value with the substitutions a round trip makes.
Normalised(type, m) ==
    IF type = TemplateType
    THEN [m EXCEPT !.Parameters = EmptyIfNull(@), !.Scanners = EmptyIfNull(@)]
    ELSE IF type = RuleType
    THEN [m EXCEPT !.Description = IF @.st = "known" THEN @ ELSE StringValue(""),
                   !.Parameters = EmptyIfNull(@)]
    ELSE [m EXCEPT !.Scope =
            [@ EXCEPT !.attrs = [@ EXCEPT !.project_keys = NullIfEmpty(@),
                                          !.application_keys = NullIfEmpty(@)]]]

\* C11 (as stated): converting a local value to wire form and back yields
\* the local value, for every entity kind, absent and empty descriptions and
\* collections included.
C11_RoundTrip ==
    RoundTripped => Configured(resourceType, tfState) = Configured(resourceType, plan)

\* C11 (amended): converting a local value to wire form and back yields the
\* local value, except that an absent rule description comes back as the
\* empty string, absent template parameters, template scanners and rule
\* parameters come back as empty collections, and explicitly empty
\* lifecycle-policy key lists come back as absent.
C11_RoundTripNormalised ==
    RoundTripped =>
        Configured(resourceType, tfState)
            = Configured(resourceType, Normalised(resourceType, plan))

C11_Witness ==
    /\ RoundTripped
    /\ resourceType = PolicyType
    /\ plan.Description = StringValue("")
    /\ plan.Scope = ApplicationScope(StringList(<<"a">>), Labels("v1"))
    /\ tfState.Scope = plan.Scope
    /\ tfState.Description = plan.Description

\* toAPIModel has returned a wire model without an error; lastRequest.body
\* is its JSON form.
Converted == phase = "wire" /\ lastOp = "toAPIModel" /\ opDiags = <<>>

DescriptionSent == Has(lastRequest.body, "description")

\* C12 (as stated): for every entity kind an explicitly empty description is
\* sent as an empty string and an absent description is left out of the
\* payload.
C12_EmptyDescriptionSent ==
    Converted =>
        /\ IsNull(plan.Description) => ~DescriptionSent
        /\ plan.Description = StringValue("") =>
               DescriptionSent /\ lastRequest.body["description"] = ""

\* C12 (amended): a template sends an explicitly empty description as an
\* empty string and leaves an absent description out of the payload; a rule
\* and a lifecycle policy leave the description out of the payload in both
\* cases.
C12_EmptyDescriptionSentByTemplate ==
    Converted =>
        /\ IsNull(plan.Description) => ~DescriptionSent
        /\ plan.Description = StringValue("") =>
               IF resourceType = TemplateType
               THEN DescriptionSent /\ lastRequest.body["description"] = ""
               ELSE ~DescriptionSent

C12_Witness ==
    /\ Converted
    /\ resourceType = TemplateType
    /\ plan.Description = StringValue("")
    /\ DescriptionSent
    /\ lastRequest.body["description"] = ""

\* fromAPIModel has been applied; WireBody is the JSON it was given, the
\* wire form toAPIModel made or a response.
Mapped == phase = "local-again" /\ lastOp = "fromAPIModel"

WireBody == IF lastRequest # NoRequest THEN lastRequest.body ELSE server.body

DescriptionOmitted == Mapped /\ ~Has(WireBody, "description")

\* C13 (as stated): for every entity kind a description the response leaves
\* out becomes the null description locally.
C13_OmittedDescriptionNull ==
    DescriptionOmitted => tfState.Description = StringNull

\* C13 (amended): a description the response leaves out becomes the null
\* description of a template, the empty-string description of a rule, and
\* for a lifecycle policy the description of the previous local value when
\* that one is set, the null description when it is not.
C13_OmittedDescriptionPerKind ==
    DescriptionOmitted =>
        tfState.Description =
            IF resourceType = TemplateType THEN StringNull
            ELSE IF resourceType = RuleType THEN StringValue("")
            ELSE IF ~IsNull(plan.Description) THEN plan.Description
            ELSE StringNull

C13_Witness ==
    /\ DescriptionOmitted
    /\ resourceType = TemplateType
    /\ server # NoEntity
    /\ plan.Description = StringValue("d")
    /\ tfState.Description = StringNull

\* The list attribute is null or has no element.
AbsentOrEmpty(list) == IsNull(list) \/ (list.st = "known" /\ list.elems = <<>>)

\* The payload has the key, with an empty array.
SentEmpty(key) == Has(lastRequest.body, key) /\ lastRequest.body[key] = <<>>

\* C14 (as stated): template parameters, template scanners and rule
\* parameters that are absent or empty locally are in the payload as an
\* empty collection.
C14_EmptyCollectionSent ==
    Converted /\ resourceType \in {TemplateType, RuleType} =>
        /\ AbsentOrEmpty(plan.Parameters) => SentEmpty("parameters")
        /\ resourceType = TemplateType /\ AbsentOrEmpty(plan.Scanners)
               => SentEmpty("scanners")

\* C14 (amended): rule parameters that are absent or empty locally are in
\* the payload as an empty collection; template parameters and template
\* scanners that are absent or empty locally are left out of the payload.
C14_EmptyCollectionSentByRule ==
    Converted /\ resourceType \in {TemplateType, RuleType} =>
        /\ AbsentOrEmpty(plan.Parameters) =>
               IF resourceType = RuleType THEN SentEmpty("parameters")
               ELSE ~Has(lastRequest.body, "parameters")
        /\ resourceType = TemplateType /\ AbsentOrEmpty(plan.Scanners)
               => ~Has(lastRequest.body, "scanners")

C14_Witness ==
    /\ Converted
    /\ resourceType = RuleType
    /\ IsNull(plan.Parameters)
    /\ SentEmpty("parameters")

\* fromAPIModel was given a JSON object without the key.
Absent(key) == Mapped /\ ~Has(WireBody, key)

\* fromAPIModel was given a scope without the key.
AbsentInScope(key) ==
    /\ Mapped
    /\ resourceType = PolicyType
    /\ Has(WireBody, "scope")
    /\ ~Has(WireBody["scope"], key)

\* C15 (as stated): template parameters and scanners, rule parameters, and
\* lifecycle-policy project_keys, application_keys and rule_ids that the
\* response leaves out are empty collections locally, never null.
C15_AbsentCollectionEmpty ==
    /\ resourceType \in {TemplateType, RuleType} /\ Absent("parameters")
           => tfState.Parameters = ListValue(<<>>)
    /\ resourceType = TemplateType /\ Absent("scanners")
           => tfState.Scanners = ListValue(<<>>)
    /\ AbsentInScope("project_keys")
           => tfState.Scope.attrs.project_keys = ListValue(<<>>)
    /\ AbsentInScope("application_keys")
           => tfState.Scope.attrs.application_keys = ListValue(<<>>)
    /\ resourceType = PolicyType /\ Absent("rule_ids")
           => tfState.RuleIDs = ListValue(<<>>)

\* C15 (amended): template parameters and scanners and rule parameters that
\* the response leaves out are empty collections locally, never null;
\* lifecycle-policy project_keys, application_keys and rule_ids that the
\* response leaves out are null collections locally.
C15_AbsentCollectionPerKind ==
    /\ resourceType \in {TemplateType, RuleType} /\ Absent("parameters")
           => tfState.Parameters = ListValue(<<>>)
    /\ resourceType = TemplateType /\ Absent("scanners")
           => tfState.Scanners = ListValue(<<>>)
    /\ AbsentInScope("project_keys")
           => tfState.Scope.attrs.project_keys = ListNull
    /\ AbsentInScope("application_keys")
           => tfState.Scope.attrs.application_keys = ListNull
    /\ resourceType = PolicyType /\ Absent("rule_ids")
           => tfState.RuleIDs = ListNull

C15_Witness ==
    /\ resourceType = TemplateType
    /\ server # NoEntity
    /\ Absent("parameters")
    /\ Absent("scanners")
    /\ plan.Parameters = TemplateParameters
    /\ tfState.Parameters = ListValue(<<>>)
    /\ tfState.Scanners = ListValue(<<>>)

----------------------------------------------------------------------------
(* Properties of the handlers: what a successful call stores.              *)

\* The handler returned without an error and wrote the resource's state.
Succeeds == opDiags' = <<>> /\ tfState' # NoState

\* A template Create or Update that sent a request sent the text of the
\* file as rego, and one that succeeded stored the plan's path, not the text
\* of the response.
TemplateWriteKeepsPath ==
    (TemplateCreate \/ TemplateUpdate) =>
        /\ lastRequest' # NoRequest => lastRequest'.body["rego"] = fileContent
        /\ Succeeds =>
               /\ tfState'.Rego = plan.Rego
               /\ tfState'.Rego # StringValue(TextStr(server'.body["rego"]))

\* C16 (as stated): a template Create or Update request carries the text of
\* the .rego file, and after a successful Create or Update the state's rego
\* is the plan's path, after a successful Read the prior state's value,
\* never the text of the response.
C16_RegoPathKept ==
    [][/\ TemplateWriteKeepsPath
       /\ TemplateRead /\ Succeeds =>
              /\ tfState'.Rego = tfState.Rego
              /\ tfState'.Rego # StringValue(TextStr(server'.body["rego"]))]_vars

\* C16 (amended): a template Create or Update request carries the text of
\* the .rego file, and after a successful Create or Update the state's rego
\* is the plan's path, after a successful Read the string value of the prior
\* state's rego (the empty string when the prior state's rego is null, as it
\* is after an import), never the text of the response.
C16_RegoPathStringKept ==
    [][/\ TemplateWriteKeepsPath
       /\ TemplateRead /\ Succeeds =>
              /\ tfState'.Rego = StringValue(tfState.Rego.v)
              /\ tfState'.Rego # StringValue(TextStr(server'.body["rego"]))]_vars

C16_Witness ==
    /\ resourceType = TemplateType
    /\ lastOp = "Read"
    /\ opDiags = <<>>
    /\ tfState # NoState
    /\ tfState.Rego = StringValue(PathStr(GoodPath))
    /\ server # NoEntity
    /\ server.body["rego"] = ModuleText(SingleCallModule(OpCount))

----------------------------------------------------------------------------
(* Properties of LifecyclePolicyResourceModel.toAPIModel.                  *)

\* toAPIModel has been applied to a lifecycle policy.
PolicyConverted == phase = "wire" /\ lastOp = "toAPIModel" /\ resourceType = PolicyType

\* The number of elements the configuration supplies.
Supplied(list) == IF IsNull(list) THEN 0 ELSE Len(list.elems)

ScopeRejected ==
    /\ opDiags # <<>>
    /\ plan.Action = Action => "Invalid Scope Configuration" \in Range(opDiags)

\* C17: toAPIModel rejects a project scope that has not exactly one project
\* key and an application scope that has neither application keys nor
\* application labels, so a wire model it returns without an error has a
\* project scope with one project key or an application scope with a key or
\* a label.
C17_ScopeCombinationChecked ==
    PolicyConverted /\ ~IsNull(plan.Scope) =>
        LET scopeAttrs == plan.Scope.attrs
            sent == lastRequest.body["scope"]
        IN /\ scopeAttrs.type.v = "project" /\ Supplied(scopeAttrs.project_keys) # 1
                  => ScopeRejected
           /\ (/\ scopeAttrs.type.v = "application"
               /\ Supplied(scopeAttrs.application_keys) = 0
               /\ Supplied(scopeAttrs.application_labels) = 0)
                  => ScopeRejected
           /\ opDiags = <<>> =>
                  \/ /\ sent["type"] = "project"
                     /\ Has(sent, "project_keys")
                     /\ Len(sent["project_keys"]) = 1
                  \/ /\ sent["type"] = "application"
                     /\ \/ Has(sent, "application_keys") /\ Len(sent["application_keys"]) > 0
                        \/ Has(sent, "application_labels")
                               /\ Len(sent["application_labels"]) > 0

C17_Witness ==
    /\ PolicyConverted
    /\ plan.Action = Action
    /\ plan.RuleIDs = StringList(<<"r1">>)
    /\ plan.Scope = ProjectScope(StringList(<<"p", "z">>), NoLabels)
    /\ "Invalid Scope Configuration" \in Range(opDiags)

\* The action and the scope of the plan pass toAPIModel's checks.
ActionAndScopeAccepted ==
    /\ plan.Action = Action
    /\ plan.Scope \in {ProjectScope(StringList(<<"p">>), NoLabels),
                       ApplicationScope(StringList(<<"a">>), Labels("v1"))}

\* C18: toAPIModel rejects rule_ids that are absent, empty or two or more,
\* so a wire model it returns without an error carries rule_ids as an array
\* of exactly one element.
C18_ExactlyOneRuleID ==
    PolicyConverted =>
        /\ Supplied(plan.RuleIDs) # 1 => opDiags # <<>>
        /\ ActionAndScopeAccepted /\ IsNull(plan.RuleIDs)
               => opDiags = <<MissingField>>
        /\ ActionAndScopeAccepted /\ ~IsNull(plan.RuleIDs) /\ Supplied(plan.RuleIDs) # 1
               => opDiags = <<"Invalid Rule IDs">>
        /\ opDiags = <<>> =>
               /\ Has(lastRequest.body, "rule_ids")
               /\ Len(lastRequest.body["rule_ids"]) = 1
               /\ lastRequest.body["rule_ids"][1] = plan.RuleIDs.elems[1].v

C18_Witness ==
    /\ PolicyConverted
    /\ ActionAndScopeAccepted
    /\ plan.RuleIDs = StringList(<<"r1", "r2">>)
    /\ opDiags = <<"Invalid Rule IDs">>

\* The stage of the plan's action, when the action is a block.
PlanStage == plan.Action.attrs.stage

\* C19: toAPIModel rejects a model without an action, without a scope,
\* with an action without a stage, or with a stage without a key or without
\* a gate, so a wire model it returns without an error has an action whose
\* stage has the key and the gate of the model.
C19_ActionScopeStageRequired ==
    PolicyConverted =>
        /\ IsNull(plan.Action) \/ IsNull(plan.Scope) => opDiags = <<MissingField>>
        /\ ~IsNull(plan.Action) /\ ~IsNull(plan.Scope) /\ IsNull(PlanStage)
               => opDiags = <<MissingField>>
        /\ (/\ ~IsNull(plan.Action) /\ ~IsNull(plan.Scope) /\ ~IsNull(PlanStage)
            /\ IsNull(PlanStage.attrs.key) \/ IsNull(PlanStage.attrs.gate))
               => opDiags = <<"Missing Required Stage Fields">>
        /\ opDiags = <<>> =>
               /\ ~IsNull(plan.Action) /\ ~IsNull(plan.Scope) /\ ~IsNull(PlanStage)
               /\ ~IsNull(PlanStage.attrs.key) /\ ~IsNull(PlanStage.attrs.gate)
               /\ lastRequest.body["action"]["stage"]
                      = [key |-> PlanStage.attrs.key.v, gate |-> PlanStage.attrs.gate.v]
               /\ lastRequest.body["scope"] # JsonNull

C19_Witness ==
    /\ PolicyConverted
    /\ plan.Action = ActionObject(StringValue("certify_to_gate"),
                                  StageObject(StringValue("s"), StringNull))
    /\ plan.Scope = ApplicationScope(StringList(<<"a">>), Labels("v1"))
    /\ plan.RuleIDs = StringList(<<"r1">>)
    /\ opDiags = <<"Missing Required Stage Fields">>
    /\ lastRequest.body["action"]["stage"] = JsonNull

----------------------------------------------------------------------------
(* Properties of the handlers: the fields the server assigns.              *)

CreateUpdateOrRead ==
    \/ CreateOrUpdate
    \/ TemplateRead \/ RuleRead \/ PolicyRead

\* C20: after a successful Create, Update or Read the state's id is the id
\* of the response, and a template's or a rule's is_custom is the is_custom
\* of the response, whatever the plan or the prior state held.
C20_ServerAssignedFieldsStored ==
    [][CreateUpdateOrRead /\ Succeeds =>
          /\ server' # NoEntity
          /\ tfState'.ID = StringValue(server'.body["id"])
          /\ resourceType # PolicyType =>
                 tfState'.IsCustom = BoolValue(server'.body["is_custom"])]_vars

\* A rule configured with is_custom = false was created and stored with the
\* server's flag.
C20_Witness ==
    /\ resourceType = RuleType
    /\ lastOp = "Create"
    /\ opDiags = <<>>
    /\ config.IsCustom = BoolValue(FALSE)
    /\ server # NoEntity
    /\ server.body["is_custom"] = TRUE
    /\ tfState # NoState
    /\ tfState.IsCustom = BoolValue(TRUE)
    /\ tfState.ID = StringValue(ServerID)

----------------------------------------------------------------------------
(* Properties of the handlers: conflicts and entities that are gone.       *)

\* The diagnostics of a Delete whose request got no answer from the policy
\* API on the rule: a transport failure or a server fault.
DeleteUnanswered == {<<"Unable to Delete Resource">>, HandleAPIError(500)}

\* C21: while a lifecycle policy references the rule, a Delete of the rule
\* fails, with the conflict error "Rule In Use" whenever the policy API
\* answers the request, and the rule stays on the server and in the state;
\* a Delete succeeds only when no policy references the rule.
C21_ReferencedRuleNotDeleted ==
    [][RuleDelete =>
          /\ referenced =>
                 /\ opDiags' \in {<<"Rule In Use">>} \cup DeleteUnanswered
                 /\ server' = server
                 /\ server' # NoEntity
                 /\ tfState' = tfState
          /\ opDiags' = <<>> => ~referenced /\ tfState' = NoState /\ server' = NoEntity]_vars

\* A Delete of a referenced rule ended with the conflict error.
C21_Witness ==
    /\ resourceType = RuleType
    /\ lastOp = "Delete"
    /\ referenced
    /\ opDiags = <<"Rule In Use">>
    /\ server # NoEntity
    /\ tfState # NoState

\* Create is called while the policy API has an entity of the kind with the
\* name of the plan.
CreateWithNameInUse ==
    /\ TemplateCreate \/ RuleCreate \/ PolicyCreate
    /\ server # NoEntity
    /\ server.body["name"] = plan.Name.v

\* The error of a Create the policy API answered with a conflict.
AlreadyExists ==
    IF resourceType = RuleType THEN <<"Rule Already Exists">>
    ELSE IF resourceType = PolicyType THEN <<"Policy Already Exists">>
    ELSE HandleAPIError(409)

\* C22: a Create of a template, a rule or a lifecycle policy whose name an
\* entity of the kind already has fails with an error, writes no state for
\* the resource, and leaves the entity on the server as it was.
C22_DuplicateNameRejected ==
    [][CreateWithNameInUse =>
          /\ opDiags' # <<>>
          /\ tfState' = NoState
          /\ server' = server
          /\ lastRequest' # NoRequest =>
                 opDiags' \in {AlreadyExists, <<"Unable to Create Resource">>,
                               HandleAPIError(500)}]_vars

\* A Create of a lifecycle policy was answered with a conflict.
C22_Witness ==
    /\ resourceType = PolicyType
    /\ lastOp = "Create"
    /\ lastRequest.method = "POST"
    /\ opDiags = <<"Policy Already Exists">>
    /\ tfState = NoState
    /\ server = ExistingEntity(PolicyType)
    /\ server.body["name"] = lastRequest.body["name"]

----------------------------------------------------------------------------
(* Properties of the provider.                                             *)

\* The only credential is an API key in the environment, and the URL is set.
ApiKeyFromEnvironmentOnly ==
    /\ env["JFROG_API_KEY"] # "" \/ env["ARTIFACTORY_API_KEY"] # ""
    /\ env["JFROG_ACCESS_TOKEN"] = "" /\ env["ARTIFACTORY_ACCESS_TOKEN"] = ""
    /\ IsNull(config.ApiKey) /\ IsNull(config.AccessToken)
    /\ ~IsNull(config.Url)

\* C23: an API key supplied only through ARTIFACTORY_API_KEY or
\* JFROG_API_KEY is accepted as the credential: Configure does not fail with
\* the missing-credentials error, and the client it builds authenticates
\* with that key.
C23_ApiKeyFromEnvironmentAccepted ==
    phase = "configured" /\ ApiKeyFromEnvironmentOnly =>
        /\ MissingCredentials \notin Range(opDiags)
        /\ opDiags = <<>> =>
               providerData.apiKey \in {env["JFROG_API_KEY"], env["ARTIFACTORY_API_KEY"]} \ {""}

AnyRead == TemplateRead \/ RuleRead \/ PolicyRead

AnyDelete == TemplateDelete \/ RuleDelete \/ PolicyDelete

\* The diagnostics of a Read or a Delete whose request the policy API did
\* not answer on the entity: a transport failure, a server fault, a conflict.
ReadOrDeleteUnanswered ==
    {<<"Unable to Refresh Resource">>, <<"Unable to Delete Resource">>,
     HandleAPIError(500), HandleAPIError(409), <<"Rule In Use">>}

\* C24: for every resource kind a 404 is no error in Read or Delete: a Read
\* of an entity that is gone removes the resource from the state, and a
\* Delete of an entity that is gone ends as a Delete that the server
\* performed (204): without an error and with the resource out of the state.
C24_NotFoundIsNoError ==
    [][AnyRead \/ AnyDelete =>
          /\ HandleAPIError(404) # opDiags'
          /\ server = NoEntity /\ opDiags' \notin ReadOrDeleteUnanswered =>
                 opDiags' = <<>> /\ tfState' = NoState /\ server' = NoEntity
          /\ AnyDelete /\ opDiags' = <<>> => tfState' = NoState /\ server' = NoEntity]_vars

\* A Read found the entity gone and removed the resource from the state.
C24_Witness ==
    /\ lastOp = "Read"
    /\ lastRequest.method = "GET"
    /\ opDiags = <<>>
    /\ server = NoEntity
    /\ tfState = NoState

----------------------------------------------------------------------------
(* Properties of regoContentFromFile.                                      *)

\* The validator ran on a rego attribute that has a value.
PathChecked == phase \in {"validated", "invalid"} /\ regoAttr = "known"

\* The validator's only diagnostic is the path error, and no text was read.
PathRejected(reason) == vDiags = <<Diag("Rego Error", reason)>> /\ regoCode = EmptyText

\* C25: a path that, with the surrounding whitespace trimmed, is empty, is
\* not absolute or does not end with ".rego" is rejected whatever the file
\* holds and whether it exists, with the error of the first of the three
\* checks it fails; a relative path without the extension gets the
\* not-absolute error.
C25_PathChecksInOrder ==
    PathChecked =>
        LET p == TrimSpace(regoPath) IN
        /\ p = <<>> => PathRejected("path cannot be empty")
        /\ p # <<>> /\ Head(p) # "/" =>
               PathRejected("path must be an absolute (full) path")
        /\ p # <<>> /\ Head(p) = "/" /\ p[Len(p)] # ".rego" =>
               PathRejected("path must end with .rego")

\* A relative path without the extension, with no file behind it.
C25_Witness ==
    /\ PathChecked
    /\ regoPath = <<"p">>
    /\ fileContent = NoFile
    /\ PathRejected("path must be an absolute (full) path")

----------------------------------------------------------------------------
(* Infix operators.                                                        *)

\* The infix operators a module uses, by built-in name, in source order.
InfixInvocations(module) ==
    SelectSeq(ExprsCalls(module), LAMBDA parts : parts \in InfixOps)

\* C26: an infix operator is checked under its built-in name like any other
\* invocation: a parsed module that uses an operator whose built-in name is
\* not allow-listed (assign, rem) is rejected with that name on the
\* disallowed list, whatever else the module calls.
C26_InfixOperatorsChecked ==
    Walked =>
        \A i \in 1..Len(InfixInvocations(regoCode.module)) :
            NotAllowListed(InfixInvocations(regoCode.module)[i]) =>
                /\ Outcome = "Disallowed Rego Operations"
                /\ QualifiedName(InfixInvocations(regoCode.module)[i])
                       \in Range(disallowedOps)

----------------------------------------------------------------------------
(* The scope on the wire.                                                  *)

\* The scope of the request toAPIModel has built for a lifecycle policy.
SentScope == lastRequest.body["scope"]

\* The labels of the plan's scope that reach the wire model.
SuppliedLabels ==
    IF IsNull(plan.Scope.attrs.application_labels) THEN <<>>
    ELSE apiLabels(plan.Scope.attrs.application_labels.elems)

\* C27 as stated: a scope of type project carries no application keys and no
\* application labels on the wire, and a scope of type application carries
\* no project keys, whatever the local model supplies.
C27_ScopeOfDeclaredTypeOnly ==
    Converted /\ resourceType = PolicyType =>
        /\ SentScope["type"] = "project" =>
               ~Has(SentScope, "application_keys") /\ ~Has(SentScope, "application_labels")
        /\ SentScope["type"] = "application" => ~Has(SentScope, "project_keys")

\* C27: the scope of a request carries its declared type and every
\* non-empty list the local model supplies, whatever the type: project keys,
\* application keys and application labels are each on the wire exactly when
\* the model supplies at least one.
C27_ScopeCarriesWhatIsSupplied ==
    Converted /\ resourceType = PolicyType =>
        /\ SentScope["type"] = plan.Scope.attrs.type.v
        /\ Has(SentScope, "project_keys") <=> Supplied(plan.Scope.attrs.project_keys) > 0
        /\ Has(SentScope, "application_keys")
               <=> Supplied(plan.Scope.attrs.application_keys) > 0
        /\ Has(SentScope, "application_labels") <=> Len(SuppliedLabels) > 0

C27_Witness ==
    /\ Converted
    /\ resourceType = PolicyType
    /\ plan.Scope = ScopeObject(StringValue("project"), StringList(<<"p">>),
                                StringList(<<"a">>), NoLabels)
    /\ SentScope["type"] = "project"
    /\ Has(SentScope, "application_keys")

----------------------------------------------------------------------------
(* Read-only fields in request bodies.                                     *)

\* The keys of the fields the server assigns.
ReadOnlyKeys ==
    {"id", "is_custom", "created_at", "created_by", "updated_at", "updated_by"}

\* C28: the body toAPIModel and json.Marshal build for a create or an update
\* request holds no server-assigned field, for a template, a rule and a
\* lifecycle policy alike: no id, no is_custom, no audit field.
C28_NoReadOnlyFieldSent ==
    Converted => \A key \in ReadOnlyKeys : ~Has(lastRequest.body, key)

----------------------------------------------------------------------------
(* The description on a lifecycle-policy Read.                             *)

\* Read's conversion, state.fromAPIModel(ctx, apiResponse, &state), has been
\* applied to a prior state (plan) and the server's response.
PolicyRefreshed ==
    Mapped /\ resourceType = PolicyType /\ server # NoEntity /\ lastRequest = NoRequest

\* The description of the server's response; "" when it is left out.
ResponseDescription == Field(server.body, "description", "")

\* C29: on a lifecycle-policy Read a non-empty description of the response
\* goes to the state; with an empty or omitted one the state keeps the
\* description it had: a set value stays, an explicit empty string stays
\* empty, and a null description stays null.
C29_ReadKeepsDescription ==
    PolicyRefreshed =>
        tfState.Description =
            IF ResponseDescription # "" THEN StringValue(ResponseDescription)
            ELSE plan.Description

C29_Witness ==
    /\ PolicyRefreshed
    /\ ResponseDescription = ""
    /\ plan.Description = StringValue("d")
    /\ tfState.Description = StringValue("d")

----------------------------------------------------------------------------
(* The rego attribute of an imported template.                             *)

\* The template's state holds no rego path: null as ImportState leaves it, or
\* the empty string.
NoRegoPath ==
    /\ resourceType = TemplateType
    /\ tfState # NoState
    /\ tfState.Rego \in {RegoNull, StringValue(EmptyStr)}

\* C30: a successful Read of an imported template stores the empty string as
\* rego, neither the text of the response nor a path; every later successful
\* Read stores the empty string again, and the rego of the state becomes
\* something else only by an Update.
C30_ImportedRegoEmptyUntilUpdate ==
    [][NoRegoPath =>
          /\ TemplateRead /\ Succeeds =>
                 /\ tfState'.Rego = StringValue(EmptyStr)
                 /\ tfState'.Rego # StringValue(TextStr(server'.body["rego"]))
          /\ (/\ tfState' # NoState
              /\ tfState'.Rego \notin {tfState.Rego, StringValue(EmptyStr)})
                 => TemplateUpdate /\ tfState'.Rego = plan.Rego]_vars

C30_Witness ==
    /\ resourceType = TemplateType
    /\ lastOp = "Read"
    /\ opDiags = <<>>
    /\ tfState # NoState
    /\ tfState.Rego = StringValue(EmptyStr)
    /\ tfState.Name = StringValue("n")
    /\ server # NoEntity

====
